---- MODULE Spec2Model ----
(***************************************************************************)
(* InvertibleMPMSolid<Scalar,Dim> (invertible_mpm_solid.cpp), Dim = 2.     *)
(*                                                                         *)
(* Conventions.  C++ vectors are TLA+ sequences, so the C++ index i is the *)
(* sequence index i+1 (objects, particles, corners, mesh vertices).  The   *)
(* grid maps std::map<unsigned,T> are functions whose DOMAIN is the set of *)
(* keys present.  Scalars are fixed-point integers: an interpolation       *)
(* weight is counted in units of 1/WeightUnit, a division rounds (\div),    *)
(* and epsilon() is the largest value below one unit.                      *)
(* The deformation gradient is kept as an integer numerator over the       *)
(* common denominator deform_scale.                                        *)
(***************************************************************************)
EXTENDS Integers, Sequences, FiniteSets, TLC

\* ------------------------------------------------------------------ bounds
MaxObjects == 2
MaxParticles == 2
MaxOps == 3
MaxSteps == 2
MaxDeformation == 64
MaxSpeed == 16

\* ------------------------------------------------------- program constants
Dim == 2
corner_num == 4
epsilon == 0
RemedyDenominator == 4
WeightUnit == corner_num

\* --------------------------------------------------- Vector / SquareMatrix
zero_vel == <<0, 0>>
zero_mat == <<zero_vel, zero_vel>>
identityMatrix == <<(<<1, 0>>), (<<0, 1>>)>>

VAdd(a, b) == <<a[1] + b[1], a[2] + b[2]>>
VSub(a, b) == <<a[1] - b[1], a[2] - b[2]>>
VScale(k, a) == <<k * a[1], k * a[2]>>
VDiv(a, k) == <<a[1] \div k, a[2] \div k>>
outerProduct(a, b) == <<(<<a[1] * b[1], a[1] * b[2]>>), (<<a[2] * b[1], a[2] * b[2]>>)>>
MAdd(A, B) == <<VAdd(A[1], B[1]), VAdd(A[2], B[2])>>
MScale(k, A) == <<VScale(k, A[1]), VScale(k, A[2])>>
MMul(A, B) ==
    <<(<<A[1][1] * B[1][1] + A[1][2] * B[2][1], A[1][1] * B[1][2] + A[1][2] * B[2][2]>>),
      (<<A[2][1] * B[1][1] + A[2][2] * B[2][1], A[2][1] * B[1][2] + A[2][2] * B[2][2]>>)>>
MVec(A, v) == <<A[1][1] * v[1] + A[1][2] * v[2], A[2][1] * v[1] + A[2][2] * v[2]>>
determinant(A) == A[1][1] * A[2][2] - A[1][2] * A[2][1]

\* weight (in units of 1/WeightUnit) times a scalar or a vector
WMul(w, x) == (w * x) \div WeightUnit
WVec(w, v) == <<(w * v[1]) \div WeightUnit, (w * v[2]) \div WeightUnit>>

Range(s) == {s[i] : i \in DOMAIN s}
RemoveAt(s, i) == [j \in 1..(Len(s) - 1) |-> IF j < i THEN s[j] ELSE s[j + 1]]

RECURSIVE SumOver(_, _)
SumOver(S, f) ==
    IF S = {} THEN 0
    ELSE LET x == CHOOSE y \in S : TRUE IN f[x] + SumOver(S \ {x}, f)

\* ------------------------------------------------------------ input domains
\* flat indices of the grid nodes (a row of three nodes, spacing 2)
Nodes == 0..2

\* The particles an object can be built from.  A kind fixes what the particle
\* is created with (mass, velocity, domain corners, constitutive response) and
\* what the CPDI2 component computes for it (corner weights and gradients).
\* KA and KB have masses that are multiples of WeightUnit, so their
\* weight*mass products are exact, as is KC's; KD is a light particle whose
\* product with a weight of one unit falls below the resolution, i.e. is not
\* above epsilon.
ParticleKinds ==
    [KA |-> [mass |-> 4, velocity |-> <<2, 0>>, dirichlet |-> FALSE, volume |-> 1,
             stress |-> <<(<<0, 0>>), (<<0, 0>>)>>,
             corners |-> <<(<<0, 0>>), (<<2, 0>>), (<<2, 2>>), (<<0, 2>>)>>,
             cw |-> <<1, 1, 1, 1>>,
             cg |-> <<(<<-1, -1>>), (<<1, -1>>), (<<0, 1>>), (<<0, 1>>)>>],
     KB |-> [mass |-> 4, velocity |-> <<0, 0>>, dirichlet |-> FALSE, volume |-> 1,
             stress |-> <<(<<1, 0>>), (<<0, 0>>)>>,
             corners |-> <<(<<2, 0>>), (<<4, 0>>), (<<4, 2>>), (<<2, 2>>)>>,
             cw |-> <<2, 1, 1, 0>>,
             cg |-> <<(<<-1, -1>>), (<<1, -1>>), (<<0, 1>>), (<<0, 1>>)>>],
     KC |-> [mass |-> 8, velocity |-> <<0, 1>>, dirichlet |-> TRUE, volume |-> 1,
             stress |-> <<(<<0, 1>>), (<<1, 0>>)>>,
             corners |-> <<(<<2, 4>>), (<<4, 4>>), (<<4, 6>>), (<<2, 6>>)>>,
             cw |-> <<1, 1, 1, 1>>,
             cg |-> <<(<<-1, -1>>), (<<1, -1>>), (<<0, 1>>), (<<0, 1>>)>>],
     KD |-> [mass |-> 2, velocity |-> <<1, 0>>, dirichlet |-> FALSE, volume |-> 1,
             stress |-> <<(<<1, 0>>), (<<0, 1>>)>>,
             corners |-> <<(<<2, 6>>), (<<4, 6>>), (<<4, 8>>), (<<2, 8>>)>>,
             cw |-> <<1, 2, 1, 0>>,
             cg |-> <<(<<-1, -1>>), (<<1, -1>>), (<<0, 1>>), (<<0, 1>>)>>]]
KindNames == DOMAIN ParticleKinds
\* the particle lists addObject is called with
ObjectKinds == {<<"KA", "KB">>, <<"KC", "KD">>}
DtValues == {1, 2}
\* the update methods a CPDI solver can have installed
UpdateMethods == {"CPDI2", "CPDI"}
EnrichModes == {"stub", "first", "none"}
\* boundary conditions: the objects flagging each node Dirichlet, with the
\* velocity prescribed for (node, object)
DirichletConfigs ==
    {[n \in Nodes |-> << >>],
     [n \in Nodes |-> IF n = 1 THEN (1 :> <<1, 1>>) ELSE << >>],
     [n \in Nodes |-> IF n = 1 THEN (1 :> <<1, 1>>) @@ (2 :> <<0, 1>>) ELSE << >>]}

VARIABLES
    pc, step, ops, dt, enrich_criteria, hook,
    contact_method_, cpdi_update_method_,
    particles_, particle_initial_volume_, is_dirichlet_particle_,
    particle_domain_corners_,
    particle_grid_weight_and_gradient_, corner_grid_weight_and_gradient_,
    grid_mass_, grid_velocity_, grid_velocity_before_,
    is_dirichlet_grid_node_, active_grid_node_,
    particle_domain_mesh_, is_enriched_domain_corner_, domain_corner_mass_,
    domain_corner_velocity_, domain_corner_velocity_before_,
    particle_corner_weight_, particle_corner_gradient_

controlVars == <<pc, step, ops, dt, enrich_criteria, hook>>
configVars == <<contact_method_, cpdi_update_method_, is_dirichlet_grid_node_>>
particleVars == <<particles_, particle_initial_volume_, is_dirichlet_particle_,
                  particle_domain_corners_>>
weightVars == <<particle_grid_weight_and_gradient_, corner_grid_weight_and_gradient_>>
gridVars == <<grid_mass_, grid_velocity_, grid_velocity_before_, active_grid_node_>>
meshVars == <<particle_domain_mesh_>>
cornerVars == <<is_enriched_domain_corner_, domain_corner_mass_,
                domain_corner_velocity_, domain_corner_velocity_before_>>
cornerWeightVars == <<particle_corner_weight_, particle_corner_gradient_>>
vars == <<controlVars, configVars, particleVars, weightVars, gridVars, meshVars,
          cornerVars, cornerWeightVars>>

\* ---------------------------------------------------------------- accessors
objectNum == Len(particles_)
particleNumOfObject(obj_idx) == Len(particles_[obj_idx])
gridMass(obj_idx, node_idx) ==
    IF obj_idx \in DOMAIN grid_mass_[node_idx] THEN grid_mass_[node_idx][obj_idx] ELSE 0
gridVelocity(obj_idx, node_idx) ==
    IF obj_idx \in DOMAIN grid_velocity_[node_idx]
    THEN grid_velocity_[node_idx][obj_idx] ELSE zero_vel

\* CPDI2: the particle sits at the centroid of its domain
Centroid(corners) ==
    VDiv(VAdd(VAdd(corners[1], corners[2]), VAdd(corners[3], corners[4])), corner_num)

\* SolidParticle as created for an object
NewParticle(k) ==
    [kind |-> k, mass |-> ParticleKinds[k].mass, velocity |-> ParticleKinds[k].velocity,
     position |-> Centroid(ParticleKinds[k].corners),
     deformationGradient |-> identityMatrix, scale |-> 1,
     volume |-> ParticleKinds[k].volume, cauchyStress |-> ParticleKinds[k].stress]

\* ---------------------------------------------------------------------- Init
Init ==
    /\ pc = "idle" /\ step = 0 /\ ops = 0 /\ hook = "none"
    /\ dt \in DtValues
    /\ enrich_criteria = "stub"
    /\ contact_method_ \in BOOLEAN
    /\ cpdi_update_method_ = "CPDI2"
    /\ particles_ = << >> /\ particle_initial_volume_ = << >>
    /\ is_dirichlet_particle_ = << >> /\ particle_domain_corners_ = << >>
    /\ particle_grid_weight_and_gradient_ = << >>
    /\ corner_grid_weight_and_gradient_ = << >>
    /\ \E cfg \in DirichletConfigs :
          /\ is_dirichlet_grid_node_ = [n \in Nodes |-> DOMAIN cfg[n]]
          /\ grid_velocity_ = cfg
          /\ grid_velocity_before_ = cfg
    /\ grid_mass_ = [n \in Nodes |-> << >>]
    /\ active_grid_node_ = {}
    /\ particle_domain_mesh_ = << >>
    /\ is_enriched_domain_corner_ = << >> /\ domain_corner_mass_ = << >>
    /\ domain_corner_velocity_ = << >> /\ domain_corner_velocity_before_ = << >>
    /\ particle_corner_weight_ = << >> /\ particle_corner_gradient_ = << >>

\* ------------------------------------------------- lifecycle (parent's part)
\* MPMSolid/CPDIMPMSolid keep one entry per particle in each of their arrays;
\* addObject, addParticle, removeParticle and removeObject change particles_
\* and call the append*/delete* hooks below.
ParentAppendAllParticleRelatedDataOfLastObject(kinds) ==
    /\ particles_' = Append(particles_, [i \in DOMAIN kinds |-> NewParticle(kinds[i])])
    /\ particle_initial_volume_' =
           Append(particle_initial_volume_, [i \in DOMAIN kinds |-> ParticleKinds[kinds[i]].volume])
    /\ is_dirichlet_particle_' =
           Append(is_dirichlet_particle_, [i \in DOMAIN kinds |-> ParticleKinds[kinds[i]].dirichlet])
    /\ particle_domain_corners_' =
           Append(particle_domain_corners_, [i \in DOMAIN kinds |-> ParticleKinds[kinds[i]].corners])
    /\ particle_grid_weight_and_gradient_' =
           Append(particle_grid_weight_and_gradient_, [i \in DOMAIN kinds |-> << >>])
    /\ corner_grid_weight_and_gradient_' =
           Append(corner_grid_weight_and_gradient_,
                  [i \in DOMAIN kinds |-> [c \in 1..corner_num |-> << >>]])

ParentAppendLastParticleRelatedDataOfObject(object_idx, k) ==
    /\ particles_' = [particles_ EXCEPT ![object_idx] = Append(@, NewParticle(k))]
    /\ particle_initial_volume_' =
           [particle_initial_volume_ EXCEPT ![object_idx] = Append(@, ParticleKinds[k].volume)]
    /\ is_dirichlet_particle_' =
           [is_dirichlet_particle_ EXCEPT ![object_idx] = Append(@, ParticleKinds[k].dirichlet)]
    /\ particle_domain_corners_' =
           [particle_domain_corners_ EXCEPT ![object_idx] = Append(@, ParticleKinds[k].corners)]
    /\ particle_grid_weight_and_gradient_' =
           [particle_grid_weight_and_gradient_ EXCEPT ![object_idx] = Append(@, << >>)]
    /\ corner_grid_weight_and_gradient_' =
           [corner_grid_weight_and_gradient_ EXCEPT
               ![object_idx] = Append(@, [c \in 1..corner_num |-> << >>])]

ParentDeleteAllParticleRelatedDataOfObject(object_idx) ==
    /\ particles_' = RemoveAt(particles_, object_idx)
    /\ particle_initial_volume_' = RemoveAt(particle_initial_volume_, object_idx)
    /\ is_dirichlet_particle_' = RemoveAt(is_dirichlet_particle_, object_idx)
    /\ particle_domain_corners_' = RemoveAt(particle_domain_corners_, object_idx)
    /\ particle_grid_weight_and_gradient_' =
           RemoveAt(particle_grid_weight_and_gradient_, object_idx)
    /\ corner_grid_weight_and_gradient_' =
           RemoveAt(corner_grid_weight_and_gradient_, object_idx)

ParentDeleteOneParticleRelatedDataOfObject(object_idx, particle_idx) ==
    /\ particles_' = [particles_ EXCEPT ![object_idx] = RemoveAt(@, particle_idx)]
    /\ particle_initial_volume_' =
           [particle_initial_volume_ EXCEPT ![object_idx] = RemoveAt(@, particle_idx)]
    /\ is_dirichlet_particle_' =
           [is_dirichlet_particle_ EXCEPT ![object_idx] = RemoveAt(@, particle_idx)]
    /\ particle_domain_corners_' =
           [particle_domain_corners_ EXCEPT ![object_idx] = RemoveAt(@, particle_idx)]
    /\ particle_grid_weight_and_gradient_' =
           [particle_grid_weight_and_gradient_ EXCEPT ![object_idx] = RemoveAt(@, particle_idx)]
    /\ corner_grid_weight_and_gradient_' =
           [corner_grid_weight_and_gradient_ EXCEPT ![object_idx] = RemoveAt(@, particle_idx)]

\* ---------------------------------------------------- lifecycle (this class)
one_particle_corner_weight == [c \in 1..corner_num |-> 0]
one_particle_corner_gradient == [c \in 1..corner_num |-> zero_vel]

\* push_back of one record per particle of the last object
PushBackAll(records, particle_num, one_record) ==
    Append(records, [i \in 1..particle_num |-> one_record])
\* push_back of one record to the given object
PushBackOne(records, object_idx, one_record) ==
    [records EXCEPT ![object_idx] = Append(@, one_record)]
\* erase(begin() + object_idx)
EraseObject(records, object_idx) == RemoveAt(records, object_idx)
\* a faulty variant that erases nothing
KeepRecords(records, object_idx, particle_idx) == records
\* erase(begin() + particle_idx) in the given object
EraseParticle(records, object_idx, particle_idx) ==
    [records EXCEPT ![object_idx] = RemoveAt(@, particle_idx)]

LifecycleFrame ==
    /\ pc = "idle" /\ ops < MaxOps /\ ops' = ops + 1
    /\ UNCHANGED <<pc, step, dt, enrich_criteria, hook>>
    /\ UNCHANGED <<configVars, gridVars, meshVars, cornerVars>>

appendAllParticleRelatedDataOfLastObject(kinds) ==
    /\ LifecycleFrame
    /\ objectNum < MaxObjects
    /\ ParentAppendAllParticleRelatedDataOfLastObject(kinds)
    /\ LET particle_num_of_last_object == Len(kinds) IN
       /\ particle_corner_weight_' =
              PushBackAll(particle_corner_weight_, particle_num_of_last_object,
                          one_particle_corner_weight)
       /\ particle_corner_gradient_' =
              PushBackAll(particle_corner_gradient_, particle_num_of_last_object,
                          one_particle_corner_gradient)

appendLastParticleRelatedDataOfObject(object_idx, k) ==
    /\ LifecycleFrame
    /\ particleNumOfObject(object_idx) < MaxParticles
    /\ ParentAppendLastParticleRelatedDataOfObject(object_idx, k)
    /\ particle_corner_weight_' =
           PushBackOne(particle_corner_weight_, object_idx, one_particle_corner_weight)
    /\ particle_corner_gradient_' =
           PushBackOne(particle_corner_gradient_, object_idx, one_particle_corner_gradient)

deleteAllParticleRelatedDataOfObject(object_idx) ==
    /\ LifecycleFrame
    /\ ParentDeleteAllParticleRelatedDataOfObject(object_idx)
    /\ particle_corner_weight_' = EraseObject(particle_corner_weight_, object_idx)
    /\ particle_corner_gradient_' = EraseObject(particle_corner_gradient_, object_idx)

deleteOneParticleRelatedDataOfObject(object_idx, particle_idx) ==
    /\ LifecycleFrame
    /\ ParentDeleteOneParticleRelatedDataOfObject(object_idx, particle_idx)
    /\ particle_corner_weight_' =
           EraseParticle(particle_corner_weight_, object_idx, particle_idx)
    /\ particle_corner_gradient_' =
           EraseParticle(particle_corner_gradient_, object_idx, particle_idx)

\* ------------------------------------------------------- particle-domain mesh
Resize(s, n, value) == [i \in 1..n |-> IF i <= Len(s) THEN s[i] ELSE value]
MinOf(S) == CHOOSE x \in S : \A y \in S : x <= y

\* a faulty variant that gives every slot a vertex of its own
NeverWeld(slots, i, acc) ==
    [vert |-> slots, domains |-> [j \in 1..Len(slots) |-> j]]

\* the std::find loop: slot i of the object (particle-major) gets the index of
\* the first equal position, or a new vertex
RECURSIVE WeldCorners(_, _, _)
WeldCorners(slots, i, acc) ==
    IF i > Len(slots) THEN acc
    ELSE LET found == {j \in DOMAIN acc.vert : acc.vert[j] = slots[i]} IN
         IF found = {}
         THEN WeldCorners(slots, i + 1,
                          [vert |-> Append(acc.vert, slots[i]),
                           domains |-> Append(acc.domains, Len(acc.vert) + 1)])
         ELSE WeldCorners(slots, i + 1,
                          [vert |-> acc.vert,
                           domains |-> Append(acc.domains, MinOf(found))])

\* QuadMesh(vert_num, vertices, particle_num, domains) of one object
BuildMesh(corners_of_object) ==
    LET particle_num == Len(corners_of_object)
        slots == [i \in 1..(particle_num * corner_num) |->
                     corners_of_object[((i - 1) \div corner_num) + 1][((i - 1) % corner_num) + 1]]
        welded == WeldCorners(slots, 1, [vert |-> << >>, domains |-> << >>])
    IN [vert |-> welded.vert,
        ele |-> [p \in 1..particle_num |->
                    [c \in 1..corner_num |-> welded.domains[(p - 1) * corner_num + c]]]]

vertNum(mesh) == Len(mesh.vert)
eleNum(mesh) == Len(mesh.ele)
eleVertIndex(obj_idx, particle_idx, corner_idx) ==
    particle_domain_mesh_[obj_idx].ele[particle_idx][corner_idx]

\* the per-corner array of one kind after the two resize calls
ResizeCornerArray(array, obj_num, meshes, value) ==
    [o \in 1..obj_num |-> Resize(IF o <= Len(array) THEN array[o] ELSE << >>,
                                 vertNum(meshes[o]), value)]

constructParticleDomainMesh ==
    LET obj_num == objectNum
        meshes == [o \in 1..obj_num |-> BuildMesh(particle_domain_corners_[o])]
    IN /\ particle_domain_mesh_' = meshes
       /\ is_enriched_domain_corner_' =
              ResizeCornerArray(is_enriched_domain_corner_, obj_num, meshes, FALSE)
       /\ domain_corner_mass_' = ResizeCornerArray(domain_corner_mass_, obj_num, meshes, 0)
       /\ domain_corner_velocity_' =
              ResizeCornerArray(domain_corner_velocity_, obj_num, meshes, zero_vel)
       /\ domain_corner_velocity_before_' =
              ResizeCornerArray(domain_corner_velocity_before_, obj_num, meshes, zero_vel)

initSimulationData ==
    /\ pc = "idle"
    /\ constructParticleDomainMesh
    /\ UNCHANGED <<controlVars, configVars, particleVars, weightVars, gridVars,
                   cornerWeightVars>>

\* ------------------------------------------------- interpolation weights
\* The generic interpolation component: a domain corner takes its velocity
\* from the grid node of its cell (nodes at x = 0, 2, 4).
NodeOf(pos) == IF pos[1] < 2 THEN 0 ELSE IF pos[1] < 4 THEN 1 ELSE 2
CornerGridPairs(pos) ==
    << [node_idx |-> NodeOf(pos), weight_value |-> WeightUnit, gradient_value |-> zero_vel] >>

\* CPDI2: the weight of a particle at a node is the sum of its corner weights
\* over the corners in that node's cell; nodes of weight zero are not listed.
NodeWeight(k, corners, n) ==
    SumOver({c \in 1..corner_num : NodeOf(corners[c]) = n}, ParticleKinds[k].cw)
NodeGradient(k, corners, n) ==
    <<SumOver({c \in 1..corner_num : NodeOf(corners[c]) = n},
              [c \in 1..corner_num |-> ParticleKinds[k].cg[c][1]]),
      SumOver({c \in 1..corner_num : NodeOf(corners[c]) = n},
              [c \in 1..corner_num |-> ParticleKinds[k].cg[c][2]])>>
ParticleGridPairs(k, corners) ==
    LET all == [i \in 1..3 |-> [node_idx |-> i - 1,
                                weight_value |-> NodeWeight(k, corners, i - 1),
                                gradient_value |-> NodeGradient(k, corners, i - 1)]]
        listed(pair) == pair.weight_value > epsilon
    IN SelectSeq(all, listed)

\* CPDIMPMSolid::updateParticleInterpolationWeight
ParentUpdateParticleInterpolationWeight ==
    /\ particle_grid_weight_and_gradient_' =
           [o \in DOMAIN particles_ |-> [p \in DOMAIN particles_[o] |->
               ParticleGridPairs(particles_[o][p].kind, particle_domain_corners_[o][p])]]
    /\ corner_grid_weight_and_gradient_' =
           [o \in DOMAIN particles_ |-> [p \in DOMAIN particles_[o] |->
               [c \in 1..corner_num |-> CornerGridPairs(particle_domain_corners_[o][p][c])]]]

\* CPDI2UpdateMethod::updateParticleInterpolationWeightInDomain
updateParticleInterpolationWeightInDomain ==
    /\ particle_corner_weight_' =
           [o \in DOMAIN particles_ |-> [p \in DOMAIN particles_[o] |->
               ParticleKinds[particles_[o][p].kind].cw]]
    /\ particle_corner_gradient_' =
           [o \in DOMAIN particles_ |-> [p \in DOMAIN particles_[o] |->
               ParticleKinds[particles_[o][p].kind].cg]]

\* Steps are explored while the particle state is within MaxDeformation and
\* MaxSpeed (the explicit scheme is unstable at these coarse resolutions).
Abs(x) == IF x < 0 THEN -x ELSE x
WithinExploredRange ==
    \A o \in DOMAIN particles_ : \A p \in DOMAIN particles_[o] : \A i \in 1..Dim :
        /\ Abs(particles_[o][p].velocity[i]) <= MaxSpeed
        /\ \A j \in 1..Dim :
               Abs(particles_[o][p].deformationGradient[i][j]) <= MaxDeformation

\* a faulty variant that takes every update method for CPDI2
AnyUpdateMethod == TRUE
\* dynamic_cast<CPDI2UpdateMethod<Scalar,Dim>*>(this->cpdi_update_method_)
IsCPDI2UpdateMethod == cpdi_update_method_ = "CPDI2"

\* The first call of MPMSolid::advanceStep(dt); the enrichment criterion that
\* holds during the step is fixed here.
updateParticleInterpolationWeight ==
    /\ pc = "idle" /\ step < MaxSteps
    /\ WithinExploredRange
    /\ step' = step + 1
    /\ enrich_criteria' \in EnrichModes
    /\ ParentUpdateParticleInterpolationWeight
    /\ IF IsCPDI2UpdateMethod
       THEN /\ updateParticleInterpolationWeightInDomain
            /\ pc' = "rasterize"
       ELSE /\ pc' = "error"
            /\ UNCHANGED cornerWeightVars
    /\ UNCHANGED <<ops, dt, hook>>
    /\ UNCHANGED <<configVars, particleVars, gridVars, meshVars, cornerVars>>

\* ------------------------------------------------------------ enrichment
\* The body in the source is the placeholder `return true; //TO DO`; the
\* criterion a step runs with is enrich_criteria ("stub" is the placeholder).
isEnrichCriteriaSatisfied(obj_idx, particle_idx) ==
    CASE enrich_criteria = "stub" -> TRUE
      [] enrich_criteria = "first" -> particle_idx = 1
      [] OTHER -> FALSE

\* every eleVertIndex(particle, corner) lookup of a step is in range
MeshCoversParticles ==
    /\ objectNum <= Len(particle_domain_mesh_)
    /\ \A o \in 1..objectNum : particleNumOfObject(o) <= eleNum(particle_domain_mesh_[o])

ResetCornerArray(array, value) ==
    [o \in DOMAIN array |->
        IF o <= objectNum
        THEN [i \in DOMAIN array[o] |->
                 IF i <= vertNum(particle_domain_mesh_[o]) THEN value ELSE array[o][i]]
        ELSE array[o]]

\* a faulty variant that keeps the previous step's corner data
KeepParticleDomainData ==
    [enriched |-> is_enriched_domain_corner_, mass |-> domain_corner_mass_,
     velocity |-> domain_corner_velocity_, before |-> domain_corner_velocity_before_]

\* is_enriched_domain_corner_, domain_corner_mass_, domain_corner_velocity_,
\* domain_corner_velocity_before_ after the reset
resetParticleDomainData ==
    [enriched |-> ResetCornerArray(is_enriched_domain_corner_, FALSE),
     mass |-> ResetCornerArray(domain_corner_mass_, 0),
     velocity |-> ResetCornerArray(domain_corner_velocity_, zero_vel),
     before |-> ResetCornerArray(domain_corner_velocity_before_, zero_vel)]

\* the particle loop of one object, from particle_idx on
RECURSIVE EnrichParticles(_, _, _)
EnrichParticles(enriched, obj_idx, particle_idx) ==
    IF particle_idx > particleNumOfObject(obj_idx) THEN enriched
    ELSE EnrichParticles(
             IF isEnrichCriteriaSatisfied(obj_idx, particle_idx)
             THEN [g \in DOMAIN enriched |->
                      \/ enriched[g]
                      \/ \E c \in 1..corner_num : eleVertIndex(obj_idx, particle_idx, c) = g]
             ELSE enriched,
             obj_idx, particle_idx + 1)

\* a faulty variant that leaves every corner ordinary
SkipEnrichState(enriched) == enriched

updateParticleDomainEnrichState(enriched) ==
    [o \in DOMAIN enriched |->
        IF o <= objectNum THEN EnrichParticles(enriched[o], o, 1) ELSE enriched[o]]

\* --------------------------------------------------------------- rasterize
\* MPMSolid::resetGridData: masses and the active-node table are cleared; a
\* velocity is kept only where the node is Dirichlet for the object.
resetGridData ==
    [mass |-> [n \in Nodes |-> << >>],
     velocity |-> [n \in Nodes |->
         [o \in DOMAIN grid_velocity_[n] \cap is_dirichlet_grid_node_[n] |->
             grid_velocity_[n][o]]],
     before |-> [n \in Nodes |->
         [o \in DOMAIN grid_velocity_before_[n] \cap is_dirichlet_grid_node_[n] |->
             grid_velocity_before_[n][o]]]]

\* std::map: m[key] += value, or insert(key, value) when the key is absent
MapAddMass(m, key, value) ==
    IF key \in DOMAIN m THEN [m EXCEPT ![key] = @ + value] ELSE m @@ (key :> value)
MapAddMomentum(m, key, value) ==
    IF key \in DOMAIN m THEN [m EXCEPT ![key] = VAdd(@, value)] ELSE m @@ (key :> value)
\* std::map operator[]: the value at key, value-initialised when absent
MapAt(m, key, default) == IF key \in DOMAIN m THEN m[key] ELSE default
MapPut(m, key, value) == [k \in DOMAIN m \cup {key} |-> IF k = key THEN value ELSE m[k]]

enrichedCornerNum(enriched, obj_idx, particle_idx) ==
    Cardinality({c \in 1..corner_num :
                    enriched[obj_idx][eleVertIndex(obj_idx, particle_idx, c)]})
\* faulty variants of the two tests on the particle type
EveryParticle(enriched_corner_num) == TRUE
OnlyFullyEnriched(enriched_corner_num) == enriched_corner_num = corner_num
\* ordinary and transient particles get influence from the grid
GetsGridInfluence(enriched_corner_num) == enriched_corner_num < corner_num
\* transient and enriched particles get influence from the domain corners
GetsCornerInfluence(enriched_corner_num) == enriched_corner_num > 0

\* the loop over the grid pairs of one particle, from pair i on
RECURSIVE RasterizeToGrid(_, _, _, _, _)
RasterizeToGrid(grid, obj_idx, particle, pairs, i) ==
    IF i > Len(pairs) THEN grid
    ELSE LET pair == pairs[i]
             weight == pair.weight_value
             mass == [grid.mass EXCEPT ![pair.node_idx] =
                         MapAddMass(@, obj_idx, WMul(weight, particle.mass))]
             velocity ==
                 IF obj_idx \in is_dirichlet_grid_node_[pair.node_idx]
                 THEN grid.velocity
                 ELSE [grid.velocity EXCEPT ![pair.node_idx] =
                          MapAddMomentum(@, obj_idx,
                              WVec(weight, VScale(particle.mass, particle.velocity)))]
         IN RasterizeToGrid([grid EXCEPT !.mass = mass, !.velocity = velocity],
                            obj_idx, particle, pairs, i + 1)

\* the loop over the corners of one particle, from corner_idx on; corner is
\* the record of the per-corner arrays of the object
RECURSIVE RasterizeToCorner(_, _, _, _, _)
RasterizeToCorner(corner, enriched, obj_idx, particle_idx, corner_idx) ==
    IF corner_idx > corner_num THEN corner
    ELSE LET global_corner_idx == eleVertIndex(obj_idx, particle_idx, corner_idx)
             particle == particles_[obj_idx][particle_idx]
             weight == particle_corner_weight_[obj_idx][particle_idx][corner_idx]
         IN RasterizeToCorner(
                IF enriched[obj_idx][global_corner_idx]
                THEN [corner EXCEPT
                         !.mass[global_corner_idx] = @ + WMul(weight, particle.mass),
                         !.velocity[global_corner_idx] =
                             VAdd(@, WVec(weight, VScale(particle.mass, particle.velocity)))]
                ELSE corner,
                enriched, obj_idx, particle_idx, corner_idx + 1)

\* the particle loop of one object, from particle_idx on; acc holds the grid
\* maps and the per-corner arrays of the object
RECURSIVE RasterizeParticles(_, _, _, _)
RasterizeParticles(acc, enriched, obj_idx, particle_idx) ==
    IF particle_idx > particleNumOfObject(obj_idx) THEN acc
    ELSE LET enriched_corner_num == enrichedCornerNum(enriched, obj_idx, particle_idx)
             grid == IF GetsGridInfluence(enriched_corner_num)
                     THEN RasterizeToGrid(acc.grid, obj_idx, particles_[obj_idx][particle_idx],
                              particle_grid_weight_and_gradient_[obj_idx][particle_idx], 1)
                     ELSE acc.grid
             corner == IF GetsCornerInfluence(enriched_corner_num)
                       THEN RasterizeToCorner(acc.corner, enriched, obj_idx, particle_idx, 1)
                       ELSE acc.corner
         IN RasterizeParticles([grid |-> grid, corner |-> corner],
                               enriched, obj_idx, particle_idx + 1)

\* divide the corner momentum by the corner mass, buffer the velocity
NormalizeCorners(corner) ==
    LET velocity == [g \in DOMAIN corner.velocity |->
                        IF corner.mass[g] > epsilon
                        THEN VDiv(corner.velocity[g], corner.mass[g])
                        ELSE corner.velocity[g]]
    IN [corner EXCEPT
           !.velocity = velocity,
           !.before = [g \in DOMAIN corner.before |->
                          IF corner.mass[g] > epsilon THEN velocity[g] ELSE corner.before[g]]]

\* the object loop, from obj_idx on; acc.corner holds the arrays of all objects
RECURSIVE RasterizeObjects(_, _, _)
RasterizeObjects(acc, enriched, obj_idx) ==
    IF obj_idx > objectNum THEN acc
    ELSE LET own == [mass |-> acc.corner.mass[obj_idx],
                     velocity |-> acc.corner.velocity[obj_idx],
                     before |-> acc.corner.before[obj_idx]]
             done == RasterizeParticles([grid |-> acc.grid, corner |-> own],
                                        enriched, obj_idx, 1)
             norm == NormalizeCorners(done.corner)
         IN RasterizeObjects(
                [grid |-> done.grid,
                 corner |-> [acc.corner EXCEPT !.mass[obj_idx] = norm.mass,
                                               !.velocity[obj_idx] = norm.velocity,
                                               !.before[obj_idx] = norm.before]],
                enriched, obj_idx + 1)

\* the objects with mass above epsilon at node n
ActiveObjects(mass, n) ==
    {o \in 1..objectNum : MapAt(mass[n], o, 0) > epsilon}

\* a faulty variant that also divides at the nodes that are Dirichlet for the
\* object
DivideEveryActiveNode(grid) ==
    LET velocity == [n \in Nodes |->
            [o \in DOMAIN grid.velocity[n] \cup ActiveObjects(grid.mass, n) |->
                IF o \in ActiveObjects(grid.mass, n)
                THEN VDiv(MapAt(grid.velocity[n], o, zero_vel), grid.mass[n][o])
                ELSE MapAt(grid.velocity[n], o, zero_vel)]]
    IN [grid EXCEPT
           !.velocity = velocity,
           !.before = [n \in Nodes |->
               [o \in DOMAIN grid.before[n] \cup ActiveObjects(grid.mass, n) |->
                   IF o \in ActiveObjects(grid.mass, n)
                   THEN velocity[n][o] ELSE grid.before[n][o]]]]

\* a faulty variant that divides and buffers only where an entry exists
\* already, and inserts none
NormalizeWithoutInsert(grid) ==
    LET velocity == [n \in Nodes |->
            [o \in DOMAIN grid.velocity[n] |->
                IF o \in ActiveObjects(grid.mass, n) /\ o \notin is_dirichlet_grid_node_[n]
                THEN VDiv(grid.velocity[n][o], grid.mass[n][o])
                ELSE grid.velocity[n][o]]]
    IN [grid EXCEPT
           !.velocity = velocity,
           !.before = [n \in Nodes |->
               [o \in DOMAIN grid.before[n] |->
                   IF o \in ActiveObjects(grid.mass, n) /\ o \in DOMAIN velocity[n]
                   THEN velocity[n][o] ELSE grid.before[n][o]]]]

\* divide the grid momentum by the grid mass, buffer the velocity
NormalizeGrid(grid) ==
    LET velocity == [n \in Nodes |->
            [o \in DOMAIN grid.velocity[n] \cup ActiveObjects(grid.mass, n) |->
                IF o \in ActiveObjects(grid.mass, n) /\ o \notin is_dirichlet_grid_node_[n]
                THEN VDiv(MapAt(grid.velocity[n], o, zero_vel), grid.mass[n][o])
                ELSE MapAt(grid.velocity[n], o, zero_vel)]]
    IN [grid EXCEPT
           !.velocity = velocity,
           !.before = [n \in Nodes |->
               [o \in DOMAIN grid.before[n] \cup ActiveObjects(grid.mass, n) |->
                   IF o \in ActiveObjects(grid.mass, n)
                   THEN velocity[n][o] ELSE grid.before[n][o]]]]

\* a faulty variant that ignores the Dirichlet flags of the node
MomentumOverMass(grid, n) ==
    LET active == ActiveObjects(grid.mass, n) IN
    VDiv(<<SumOver(active, [o \in active |-> grid.mass[n][o] * grid.velocity[n][o][1]]),
           SumOver(active, [o \in active |-> grid.mass[n][o] * grid.velocity[n][o][2]])>>,
         SumOver(active, grid.mass[n]))

\* the velocity all objects at node n get: the velocity of the first object
\* that holds one and flags the node Dirichlet, else momentum over mass
MergedVelocity(grid, n) ==
    LET active == ActiveObjects(grid.mass, n)
        mass_at_node == SumOver(active, grid.mass[n])
        momentum_at_node ==
            <<SumOver(active, [o \in active |-> grid.mass[n][o] * grid.velocity[n][o][1]]),
              SumOver(active, [o \in active |-> grid.mass[n][o] * grid.velocity[n][o][2]])>>
        dirichlet == DOMAIN grid.velocity[n] \cap is_dirichlet_grid_node_[n]
    IN IF dirichlet # {}
       THEN grid.velocity[n][MinOf(dirichlet)]
       ELSE VDiv(momentum_at_node, mass_at_node)

\* multi-valued nodes become single-valued for all involved objects
MergeNode(grid, n) ==
    LET active == ActiveObjects(grid.mass, n)
        mass_at_node == SumOver(active, grid.mass[n])
        velocity == MergedVelocity(grid, n)
    IN IF Cardinality(active) <= 1
       THEN [mass |-> grid.mass[n], velocity |-> grid.velocity[n], before |-> grid.before[n]]
       ELSE [mass |-> [o \in DOMAIN grid.mass[n] |-> mass_at_node],
             velocity |-> [o \in DOMAIN grid.velocity[n] |-> velocity],
             before |-> [o \in DOMAIN grid.before[n] \cup DOMAIN grid.velocity[n] |->
                            IF o \in DOMAIN grid.velocity[n]
                            THEN velocity ELSE grid.before[n][o]]]

\* a faulty variant that merges whether or not a contact method is set
MergeRegardless(grid) ==
    [mass |-> [n \in Nodes |-> MergeNode(grid, n).mass],
     velocity |-> [n \in Nodes |-> MergeNode(grid, n).velocity],
     before |-> [n \in Nodes |-> MergeNode(grid, n).before]]

MergeGrid(grid) ==
    IF contact_method_ THEN grid
    ELSE [mass |-> [n \in Nodes |-> MergeNode(grid, n).mass],
          velocity |-> [n \in Nodes |-> MergeNode(grid, n).velocity],
          before |-> [n \in Nodes |-> MergeNode(grid, n).before]]

\* PHYSIKA_ASSERT(weight > epsilon) holds for every grid pair that is used
GridWeightsPositive(enriched) ==
    \A o \in 1..objectNum : \A p \in 1..particleNumOfObject(o) :
        GetsGridInfluence(enrichedCornerNum(enriched, o, p)) =>
            \A i \in DOMAIN particle_grid_weight_and_gradient_[o][p] :
                particle_grid_weight_and_gradient_[o][p][i].weight_value > epsilon

RasterizeResult ==
    LET reset == resetParticleDomainData
        enriched == updateParticleDomainEnrichState(reset.enriched)
        acc == RasterizeObjects(
                   [grid |-> resetGridData,
                    corner |-> [mass |-> reset.mass, velocity |-> reset.velocity,
                                before |-> reset.before]],
                   enriched, 1)
        normalized == NormalizeGrid(acc.grid)
    IN [enriched |-> enriched, corner |-> acc.corner,
        grid |-> MergeGrid(normalized),
        active |-> {<<n, o>> \in Nodes \X (1..objectNum) :
                       o \in ActiveObjects(normalized.mass, n)},
        asserted |-> GridWeightsPositive(enriched)]

rasterize ==
    /\ pc = "rasterize"
    /\ hook' = "onRasterize"
    /\ IF ~MeshCoversParticles
       THEN /\ pc' = "undefined"
            /\ UNCHANGED <<gridVars, cornerVars>>
       ELSE LET r == RasterizeResult IN
            IF ~r.asserted
            THEN /\ pc' = "aborted"
                 /\ UNCHANGED <<gridVars, cornerVars>>
            ELSE /\ pc' = "constitutive"
                 /\ is_enriched_domain_corner_' = r.enriched
                 /\ domain_corner_mass_' = r.corner.mass
                 /\ domain_corner_velocity_' = r.corner.velocity
                 /\ domain_corner_velocity_before_' = r.corner.before
                 /\ grid_mass_' = r.grid.mass
                 /\ grid_velocity_' = r.grid.velocity
                 /\ grid_velocity_before_' = r.grid.before
                 /\ active_grid_node_' = r.active
    /\ UNCHANGED <<step, ops, dt, enrich_criteria>>
    /\ UNCHANGED <<configVars, particleVars, weightVars, meshVars, cornerWeightVars>>

\* --------------------------------------- updateParticleConstitutiveModelState
\* velocity gradient of one particle: grid pairs, from pair i on
RECURSIVE GridVelGrad(_, _, _)
GridVelGrad(obj_idx, pairs, i) ==
    IF i > Len(pairs) THEN zero_mat
    ELSE MAdd(outerProduct(gridVelocity(obj_idx, pairs[i].node_idx), pairs[i].gradient_value),
              GridVelGrad(obj_idx, pairs, i + 1))

\* velocity gradient of one particle: enriched corners, from corner_idx on
RECURSIVE CornerVelGrad(_, _, _)
CornerVelGrad(obj_idx, particle_idx, corner_idx) ==
    IF corner_idx > corner_num THEN zero_mat
    ELSE LET global_corner_idx == eleVertIndex(obj_idx, particle_idx, corner_idx) IN
         MAdd(IF is_enriched_domain_corner_[obj_idx][global_corner_idx]
              THEN outerProduct(domain_corner_velocity_[obj_idx][global_corner_idx],
                                particle_corner_gradient_[obj_idx][particle_idx][corner_idx])
              ELSE zero_mat,
              CornerVelGrad(obj_idx, particle_idx, corner_idx + 1))

particleVelGrad(obj_idx, particle_idx) ==
    LET enriched_corner_num ==
            enrichedCornerNum(is_enriched_domain_corner_, obj_idx, particle_idx)
    IN MAdd(IF GetsGridInfluence(enriched_corner_num)
            THEN GridVelGrad(obj_idx,
                     particle_grid_weight_and_gradient_[obj_idx][particle_idx], 1)
            ELSE zero_mat,
            IF GetsCornerInfluence(enriched_corner_num)
            THEN CornerVelGrad(obj_idx, particle_idx, 1)
            ELSE zero_mat)

\* The deformation gradient is numerator/scale.  With A = dt*particle_vel_grad:
\* the normal update is F + A*F; the remedy F + (A + 0.25*A*A)*F is
\* (4*F + (4*A + A*A)*F)/4, which multiplies the scale by RemedyDenominator.
UseNormalUpdate(A) == determinant(MAdd(identityMatrix, A)) > 0
NormalUpdate(F, A) == MAdd(F, MMul(A, F))
RemedyUpdate(F, A) ==
    MAdd(MScale(RemedyDenominator, F),
         MMul(MAdd(MScale(RemedyDenominator, A), MMul(A, A)), F))

UpdatedParticle(obj_idx, particle_idx, step_dt) ==
    LET particle == particles_[obj_idx][particle_idx]
        A == MScale(step_dt, particleVelGrad(obj_idx, particle_idx))
        normal == UseNormalUpdate(A)
        particle_deform_grad == IF normal THEN NormalUpdate(particle.deformationGradient, A)
                                ELSE RemedyUpdate(particle.deformationGradient, A)
        scale == IF normal THEN particle.scale ELSE RemedyDenominator * particle.scale
    IN [particle EXCEPT
           !.deformationGradient = particle_deform_grad,
           !.scale = scale,
           !.volume = (determinant(particle_deform_grad)
                          * particle_initial_volume_[obj_idx][particle_idx])
                      \div (scale * scale)]

updateParticleConstitutiveModelState ==
    /\ pc = "constitutive"
    /\ hook' = "onUpdateParticleConstitutiveModelState"
    /\ LET updated == [o \in DOMAIN particles_ |-> [p \in DOMAIN particles_[o] |->
                          UpdatedParticle(o, p, dt)]]
       IN IF \A o \in DOMAIN updated : \A p \in DOMAIN updated[o] :
                 determinant(updated[o][p].deformationGradient) > 0
          THEN /\ particles_' = updated
               /\ pc' = "solve"
          ELSE /\ pc' = "aborted"
               /\ UNCHANGED particles_
    /\ UNCHANGED <<step, ops, dt, enrich_criteria>>
    /\ UNCHANGED <<particle_initial_volume_, is_dirichlet_particle_, particle_domain_corners_>>
    /\ UNCHANGED <<configVars, weightVars, gridVars, meshVars, cornerVars, cornerWeightVars>>

\* ------------------------------------------------- solveOnGridForwardEuler
gravity_ == 4

\* dt*(-1)*volume*cauchy_stress*weight_gradient/mass
ForceIncrement(step_dt, particle, weight_gradient, mass) ==
    VDiv(VScale((0 - step_dt) * particle.volume, MVec(particle.cauchyStress, weight_gradient)),
         mass)

\* a faulty variant that updates the particle's own object only, whether or
\* not a contact method is set
OwnObjectOnly(velocity_at_node, mass_at_node, dirichlet_at_node, obj_idx) ==
    IF obj_idx \in dirichlet_at_node \/ MapAt(mass_at_node, obj_idx, 0) <= epsilon
    THEN {}
    ELSE {obj_idx}

\* the objects whose velocity at the node of a pair the particle of obj_idx
\* changes (mass is grid_mass_ with the entry operator[] creates for obj_idx)
SolveTargets(velocity_at_node, mass_at_node, dirichlet_at_node, obj_idx) ==
    IF obj_idx \in dirichlet_at_node \/ MapAt(mass_at_node, obj_idx, 0) <= epsilon
    THEN {}
    ELSE IF contact_method_ THEN {obj_idx}
    ELSE IF dirichlet_at_node # {} THEN {}
    ELSE {o \in DOMAIN velocity_at_node : MapAt(mass_at_node, o, 0) > epsilon}

\* the loop over the grid pairs of one particle, from pair i on
RECURSIVE SolveOnGrid(_, _, _, _, _, _)
SolveOnGrid(grid, step_dt, obj_idx, particle, pairs, i) ==
    IF i > Len(pairs) THEN grid
    ELSE LET n == pairs[i].node_idx
             skipped == obj_idx \in is_dirichlet_grid_node_[n]
             mass == IF skipped THEN grid.mass
                     ELSE [grid.mass EXCEPT ![n] = MapPut(@, obj_idx, MapAt(@, obj_idx, 0))]
             targets == SolveTargets(grid.velocity[n], mass[n], is_dirichlet_grid_node_[n],
                                     obj_idx)
             increment == ForceIncrement(step_dt, particle, pairs[i].gradient_value,
                                         mass[n][obj_idx])
             velocity ==
                 IF targets = {} THEN grid.velocity
                 ELSE [grid.velocity EXCEPT ![n] =
                          [o \in DOMAIN @ \cup targets |->
                              IF o \in targets THEN VAdd(MapAt(@, o, zero_vel), increment)
                              ELSE @[o]]]
         IN SolveOnGrid([mass |-> mass, velocity |-> velocity],
                        step_dt, obj_idx, particle, pairs, i + 1)

\* the loop over the corners of one particle, from corner_idx on; velocity is
\* domain_corner_velocity_ of the object
RECURSIVE SolveOnCorner(_, _, _, _, _)
SolveOnCorner(velocity, step_dt, obj_idx, particle_idx, corner_idx) ==
    IF corner_idx > corner_num THEN velocity
    ELSE LET global_corner_idx == eleVertIndex(obj_idx, particle_idx, corner_idx)
             mass == domain_corner_mass_[obj_idx][global_corner_idx]
         IN SolveOnCorner(
                IF is_enriched_domain_corner_[obj_idx][global_corner_idx] /\ mass > epsilon
                THEN [velocity EXCEPT ![global_corner_idx] =
                         VAdd(@, ForceIncrement(step_dt, particles_[obj_idx][particle_idx],
                                  particle_corner_gradient_[obj_idx][particle_idx][corner_idx],
                                  mass))]
                ELSE velocity,
                step_dt, obj_idx, particle_idx, corner_idx + 1)

\* the particle loop over all objects, from (obj_idx, particle_idx) on
RECURSIVE SolveParticles(_, _, _, _)
SolveParticles(acc, step_dt, obj_idx, particle_idx) ==
    IF obj_idx > objectNum THEN acc
    ELSE IF particle_idx > particleNumOfObject(obj_idx)
    THEN SolveParticles(acc, step_dt, obj_idx + 1, 1)
    ELSE LET enriched_corner_num ==
                 enrichedCornerNum(is_enriched_domain_corner_, obj_idx, particle_idx)
             grid == IF GetsGridInfluence(enriched_corner_num)
                     THEN SolveOnGrid(acc.grid, step_dt, obj_idx,
                              particles_[obj_idx][particle_idx],
                              particle_grid_weight_and_gradient_[obj_idx][particle_idx], 1)
                     ELSE acc.grid
             corner == IF GetsCornerInfluence(enriched_corner_num)
                       THEN [acc.corner EXCEPT ![obj_idx] =
                                SolveOnCorner(@, step_dt, obj_idx, particle_idx, 1)]
                       ELSE acc.corner
         IN SolveParticles([grid |-> grid, corner |-> corner],
                           step_dt, obj_idx, particle_idx + 1)

\* a faulty variant that applies gravity to ordinary corners as well
GravityOnEveryCorner(velocity, step_dt) ==
    [o \in DOMAIN velocity |->
        IF o <= objectNum
        THEN [g \in DOMAIN velocity[o] |->
                 <<velocity[o][g][1], velocity[o][g][2] + step_dt * (0 - 1) * gravity_>>]
        ELSE velocity[o]]

applyGravityOnEnrichedDomainCorner(velocity, step_dt) ==
    [o \in DOMAIN velocity |->
        IF o <= objectNum
        THEN [g \in DOMAIN velocity[o] |->
                 IF is_enriched_domain_corner_[o][g]
                 THEN <<velocity[o][g][1], velocity[o][g][2] + step_dt * (0 - 1) * gravity_>>
                 ELSE velocity[o][g]]
        ELSE velocity[o]]

solveOnGridForwardEuler ==
    /\ pc = "solve"
    /\ LET solved == SolveParticles(
                         [grid |-> [mass |-> grid_mass_, velocity |-> grid_velocity_],
                          corner |-> domain_corner_velocity_], dt, 1, 1)
       IN /\ grid_mass_' = solved.grid.mass
          /\ grid_velocity_' = solved.grid.velocity
          /\ domain_corner_velocity_' = applyGravityOnEnrichedDomainCorner(solved.corner, dt)
    /\ pc' = "velocity"
    /\ UNCHANGED <<step, ops, dt, enrich_criteria, hook>>
    /\ UNCHANGED <<grid_velocity_before_, active_grid_node_, is_enriched_domain_corner_,
                   domain_corner_mass_, domain_corner_velocity_before_>>
    /\ UNCHANGED <<configVars, particleVars, weightVars, meshVars, cornerWeightVars>>

\* ------------------------------------------------------ updateParticleVelocity
\* what a read past the end of a vector can return
GarbageWeights == {0, WeightUnit}

\* a faulty variant of the mass test: no pair is skipped
AllPairs(obj_idx, pairs) == DOMAIN pairs
\* the grid pairs of a particle that are not skipped for near-zero mass
UsedPairs(obj_idx, pairs) ==
    {i \in DOMAIN pairs : gridMass(obj_idx, pairs[i].node_idx) > epsilon}

\* PHYSIKA_ERROR("Error in updateParticleVelocity!") is reached for the particle
VelocityLookupFails(obj_idx, particle_idx) ==
    /\ GetsGridInfluence(enrichedCornerNum(is_enriched_domain_corner_, obj_idx, particle_idx))
    /\ \E i \in UsedPairs(obj_idx, particle_grid_weight_and_gradient_[obj_idx][particle_idx]) :
          LET n == particle_grid_weight_and_gradient_[obj_idx][particle_idx][i].node_idx IN
          \/ obj_idx \notin DOMAIN grid_velocity_[n]
          \/ obj_idx \notin DOMAIN grid_velocity_before_[n]

RECURSIVE GridVelocityDelta(_, _, _)
GridVelocityDelta(obj_idx, pairs, i) ==
    IF i > Len(pairs) THEN zero_vel
    ELSE VAdd(IF i \in UsedPairs(obj_idx, pairs)
              THEN WVec(pairs[i].weight_value,
                        VSub(gridVelocity(obj_idx, pairs[i].node_idx),
                             MapAt(grid_velocity_before_[pairs[i].node_idx], obj_idx, zero_vel)))
              ELSE zero_vel,
              GridVelocityDelta(obj_idx, pairs, i + 1))

\* the weight updateParticleVelocity reads for a corner of a particle:
\* particle_corner_weight_[obj_idx][obj_idx][corner_idx]
VelocityCornerWeight(obj_idx, particle_idx, corner_idx, garbage) ==
    IF obj_idx \in DOMAIN particle_corner_weight_[obj_idx]
    THEN particle_corner_weight_[obj_idx][obj_idx][corner_idx]
    ELSE garbage

RECURSIVE CornerVelocityDelta(_, _, _, _)
CornerVelocityDelta(obj_idx, particle_idx, corner_idx, garbage) ==
    IF corner_idx > corner_num THEN zero_vel
    ELSE LET global_corner_idx == eleVertIndex(obj_idx, particle_idx, corner_idx) IN
         VAdd(IF is_enriched_domain_corner_[obj_idx][global_corner_idx]
              THEN WVec(VelocityCornerWeight(obj_idx, particle_idx, corner_idx, garbage),
                        VSub(domain_corner_velocity_[obj_idx][global_corner_idx],
                             domain_corner_velocity_before_[obj_idx][global_corner_idx]))
              ELSE zero_vel,
              CornerVelocityDelta(obj_idx, particle_idx, corner_idx + 1, garbage))

NewVelocity(obj_idx, particle_idx, garbage) ==
    LET enriched_corner_num ==
            enrichedCornerNum(is_enriched_domain_corner_, obj_idx, particle_idx)
        from_grid == IF GetsGridInfluence(enriched_corner_num)
                     THEN GridVelocityDelta(obj_idx,
                              particle_grid_weight_and_gradient_[obj_idx][particle_idx], 1)
                     ELSE zero_vel
        from_corner == IF GetsCornerInfluence(enriched_corner_num)
                       THEN CornerVelocityDelta(obj_idx, particle_idx, 1, garbage)
                       ELSE zero_vel
    IN IF is_dirichlet_particle_[obj_idx][particle_idx]
       THEN particles_[obj_idx][particle_idx].velocity
       ELSE VAdd(VAdd(particles_[obj_idx][particle_idx].velocity, from_grid), from_corner)

\* some enriched corner of a non-Dirichlet particle is read past the end of
\* particle_corner_weight_[obj_idx]
ReadsPastEnd ==
    \E o \in 1..objectNum : \E p \in 1..particleNumOfObject(o) :
        /\ ~is_dirichlet_particle_[o][p]
        /\ o \notin DOMAIN particle_corner_weight_[o]
        /\ GetsCornerInfluence(enrichedCornerNum(is_enriched_domain_corner_, o, p))

updateParticleVelocity ==
    /\ pc = "velocity"
    /\ hook' = "onUpdateParticleVelocity"
    /\ IF \E o \in 1..objectNum : \E p \in 1..particleNumOfObject(o) :
             ~is_dirichlet_particle_[o][p] /\ VelocityLookupFails(o, p)
       THEN /\ pc' = "error"
            /\ UNCHANGED particles_
       ELSE /\ pc' = "position"
            /\ \E garbage \in IF ReadsPastEnd THEN GarbageWeights ELSE {0} :
                  particles_' = [o \in DOMAIN particles_ |-> [p \in DOMAIN particles_[o] |->
                      [particles_[o][p] EXCEPT !.velocity = NewVelocity(o, p, garbage)]]]
    /\ UNCHANGED <<step, ops, dt, enrich_criteria>>
    /\ UNCHANGED <<particle_initial_volume_, is_dirichlet_particle_, particle_domain_corners_>>
    /\ UNCHANGED <<configVars, weightVars, gridVars, meshVars, cornerVars, cornerWeightVars>>

\* ------------------------------------------------------ updateParticlePosition
RECURSIVE GridDisplacement(_, _, _, _)
GridDisplacement(obj_idx, pairs, i, step_dt) ==
    IF i > Len(pairs) THEN zero_vel
    ELSE VAdd(VScale(step_dt, WVec(pairs[i].weight_value,
                                   gridVelocity(obj_idx, pairs[i].node_idx))),
              GridDisplacement(obj_idx, pairs, i + 1, step_dt))

\* a faulty variant that moves every corner with its particle's velocity
OwnVelocityCornerPos(obj_idx, particle_idx, corner_idx, step_dt) ==
    VAdd(particle_domain_corners_[obj_idx][particle_idx][corner_idx],
         VScale(step_dt, particles_[obj_idx][particle_idx].velocity))

NewCornerPos(obj_idx, particle_idx, corner_idx, step_dt) ==
    LET global_corner_idx == eleVertIndex(obj_idx, particle_idx, corner_idx) IN
    VAdd(particle_domain_corners_[obj_idx][particle_idx][corner_idx],
         IF is_enriched_domain_corner_[obj_idx][global_corner_idx]
         THEN VScale(step_dt, domain_corner_velocity_[obj_idx][global_corner_idx])
         ELSE GridDisplacement(obj_idx,
                  corner_grid_weight_and_gradient_[obj_idx][particle_idx][corner_idx],
                  1, step_dt))

\* setVertPos(global_corner_idx, new_corner_pos) for the slots of the object in
\* loop order, from slot (particle_idx, corner_idx) on
RECURSIVE SetVertPositions(_, _, _, _, _)
SetVertPositions(vert, obj_idx, particle_idx, corner_idx, step_dt) ==
    IF particle_idx > particleNumOfObject(obj_idx) THEN vert
    ELSE IF corner_idx > corner_num
    THEN SetVertPositions(vert, obj_idx, particle_idx + 1, 1, step_dt)
    ELSE SetVertPositions(
             [vert EXCEPT ![eleVertIndex(obj_idx, particle_idx, corner_idx)] =
                 NewCornerPos(obj_idx, particle_idx, corner_idx, step_dt)],
             obj_idx, particle_idx, corner_idx + 1, step_dt)

\* CPDI2UpdateMethod::updateParticlePosition
CPDI2UpdateParticlePosition(particle, step_dt) ==
    [particle EXCEPT !.position = VAdd(@, VScale(step_dt, particle.velocity))]

updateParticlePosition ==
    /\ pc = "position"
    /\ IF IsCPDI2UpdateMethod
       THEN /\ hook' = "onUpdateParticlePosition"
            /\ particle_domain_corners_' =
                   [o \in DOMAIN particles_ |-> [p \in DOMAIN particles_[o] |->
                       [c \in 1..corner_num |-> NewCornerPos(o, p, c, dt)]]]
            /\ particle_domain_mesh_' =
                   [o \in DOMAIN particle_domain_mesh_ |->
                       IF o <= objectNum
                       THEN [particle_domain_mesh_[o] EXCEPT
                                !.vert = SetVertPositions(@, o, 1, 1, dt)]
                       ELSE particle_domain_mesh_[o]]
            /\ particles_' = [o \in DOMAIN particles_ |-> [p \in DOMAIN particles_[o] |->
                                 CPDI2UpdateParticlePosition(particles_[o][p], dt)]]
            /\ pc' = "idle"
       ELSE /\ pc' = "error"
            /\ UNCHANGED <<hook, particles_, particle_domain_corners_, particle_domain_mesh_>>
    /\ UNCHANGED <<step, ops, dt, enrich_criteria>>
    /\ UNCHANGED <<particle_initial_volume_, is_dirichlet_particle_>>
    /\ UNCHANGED <<configVars, weightVars, gridVars, cornerVars, cornerWeightVars>>

\* ---------------------------------------------------- setCurrentParticleDomain
\* the domains a caller sets: the current one moved by one cell
DomainShifts == {<<0, 2>>}

setCurrentParticleDomain(object_idx, particle_idx, particle_domain_corner) ==
    /\ pc = "idle" /\ ops < MaxOps /\ ops' = ops + 1
    /\ object_idx <= Len(particle_domain_mesh_)
    /\ particle_idx <= eleNum(particle_domain_mesh_[object_idx])
    /\ particle_domain_corners_' =
           [particle_domain_corners_ EXCEPT ![object_idx][particle_idx] = particle_domain_corner]
    /\ particle_domain_mesh_' =
           [particle_domain_mesh_ EXCEPT ![object_idx].vert =
               [g \in DOMAIN @ |->
                   LET slots == {c \in 1..corner_num :
                                    particle_domain_mesh_[object_idx].ele[particle_idx][c] = g}
                   IN IF slots = {} THEN @[g]
                      ELSE particle_domain_corner[CHOOSE c \in slots : \A d \in slots : d <= c]]]
    /\ UNCHANGED <<pc, step, dt, enrich_criteria, hook>>
    /\ UNCHANGED <<particles_, particle_initial_volume_, is_dirichlet_particle_>>
    /\ UNCHANGED <<configVars, weightVars, gridVars, cornerVars, cornerWeightVars>>

\* ------------------------------------------------------ update method setup
\* CPDIMPMSolid::setCPDIUpdateMethod: another update method is installed
\* between two steps
setCPDIUpdateMethod(method) ==
    /\ pc = "idle"
    /\ method # cpdi_update_method_
    /\ cpdi_update_method_' = method
    /\ UNCHANGED <<contact_method_, is_dirichlet_grid_node_>>
    /\ UNCHANGED <<controlVars, particleVars, weightVars, gridVars, meshVars, cornerVars,
                   cornerWeightVars>>

\* updateParticlePosition(dt) is entered by a caller other than advanceStep;
\* explored for the solvers advanceStep cannot take there
CallUpdateParticlePosition ==
    /\ pc = "idle" /\ ~IsCPDI2UpdateMethod
    /\ pc' = "position"
    /\ UNCHANGED <<step, ops, dt, enrich_criteria, hook>>
    /\ UNCHANGED <<configVars, particleVars, weightVars, gridVars, meshVars, cornerVars,
                   cornerWeightVars>>

\* ------------------------------------------------------------ specification
AddObject == \E kinds \in ObjectKinds : appendAllParticleRelatedDataOfLastObject(kinds)
AddParticle ==
    \E o \in 1..objectNum : \E k \in KindNames : appendLastParticleRelatedDataOfObject(o, k)
RemoveObject == \E o \in 1..objectNum : deleteAllParticleRelatedDataOfObject(o)
RemoveParticle ==
    \E o \in 1..objectNum : \E p \in 1..particleNumOfObject(o) :
        deleteOneParticleRelatedDataOfObject(o, p)
SetDomain ==
    \E o \in 1..objectNum : \E p \in 1..particleNumOfObject(o) : \E shift \in DomainShifts :
        setCurrentParticleDomain(o, p,
            [c \in 1..corner_num |-> VAdd(particle_domain_corners_[o][p][c], shift)])

SetUpdateMethod == \E method \in UpdateMethods : setCPDIUpdateMethod(method)

\* one step of MPMSolid::advanceStep(dt), call by call
AdvanceStep ==
    \/ updateParticleInterpolationWeight
    \/ rasterize
    \/ updateParticleConstitutiveModelState
    \/ solveOnGridForwardEuler
    \/ updateParticleVelocity
    \/ updateParticlePosition

Next ==
    \/ AddObject
    \/ AddParticle
    \/ RemoveObject
    \/ RemoveParticle
    \/ SetDomain
    \/ SetUpdateMethod
    \/ CallUpdateParticlePosition
    \/ initSimulationData
    \/ AdvanceStep

Spec == Init /\ [][Next]_vars

\* a scene is built from whole objects and stepped
StepNext ==
    \/ AddObject
    \/ initSimulationData
    \/ AdvanceStep

SpecStep == Init /\ [][StepNext]_vars

\* a scene is built and stepped, and the update method is exchanged between steps
ConfigNext ==
    \/ AddObject
    \/ initSimulationData
    \/ SetUpdateMethod
    \/ CallUpdateParticlePosition
    \/ AdvanceStep

SpecConfig == Init /\ [][ConfigNext]_vars

\* the particle set is edited between steps
LifecycleNext ==
    \/ AddObject
    \/ AddParticle
    \/ RemoveObject
    \/ RemoveParticle
    \/ SetDomain
    \/ initSimulationData

SpecLifecycle == Init /\ [][LifecycleNext]_vars

\* ====================================================================
\* Properties
\* ====================================================================
AfterRasterize == {"constitutive", "solve", "velocity", "position"}
SharesCorner(o, p, g) == \E c \in 1..corner_num : eleVertIndex(o, p, c) = g
\* some particle whose domain contains corner g of object o satisfies the criterion
CornerRequested(o, g) ==
    \E p \in 1..particleNumOfObject(o) :
        isEnrichCriteriaSatisfied(o, p) /\ SharesCorner(o, p, g)
RequestedCornersEnriched ==
    \A o \in 1..objectNum : \A g \in 1..vertNum(particle_domain_mesh_[o]) :
        CornerRequested(o, g) =>
            /\ is_enriched_domain_corner_[o][g]
            /\ \A p \in 1..particleNumOfObject(o) : \A c \in 1..corner_num :
                   eleVertIndex(o, p, c) = g =>
                       is_enriched_domain_corner_[o][eleVertIndex(o, p, c)]

\* C1: enrichment monotonicity within a step.  Once rasterize has classified
\* the corners, every corner of a particle that satisfies the criterion is
\* flagged enriched (for every particle sharing it), and none of
\* updateParticleConstitutiveModelState, solveOnGridForwardEuler,
\* updateParticleVelocity, updateParticlePosition changes a flag.
C1_EnrichmentMonotonic ==
    [][/\ (pc = "rasterize" /\ pc' = "constitutive") => RequestedCornersEnriched'
       /\ pc \in AfterRasterize =>
              /\ is_enriched_domain_corner_' = is_enriched_domain_corner_
              /\ (pc' \in AfterRasterize => RequestedCornersEnriched')]_vars
\* a corner requested by one particle and shared with a particle that does
\* not request it is enriched when the step reaches updateParticlePosition
C1_Witness ==
    /\ pc = "position"
    /\ \E o \in 1..objectNum : \E g \in 1..vertNum(particle_domain_mesh_[o]) :
          /\ CornerRequested(o, g)
          /\ is_enriched_domain_corner_[o][g]
          /\ \E p \in 1..particleNumOfObject(o) :
                ~isEnrichCriteriaSatisfied(o, p) /\ SharesCorner(o, p, g)

\* ------------------------------------------------ expected rasterization
\* the local corners of particle p of object o that are enriched under flags
EnrichedCornersOf(enriched, o, p) ==
    {c \in 1..corner_num : enriched[o][eleVertIndex(o, p, c)]}
IsOrdinaryParticle(enriched, o, p) == EnrichedCornersOf(enriched, o, p) = {}
IsEnrichedParticle(enriched, o, p) == EnrichedCornersOf(enriched, o, p) = 1..corner_num
\* what particle p of object o puts on node n when it rasterizes to the grid
ParticleNodeMass(o, p, n) ==
    LET pairs == particle_grid_weight_and_gradient_[o][p] IN
    SumOver({i \in DOMAIN pairs : pairs[i].node_idx = n},
            [i \in DOMAIN pairs |-> WMul(pairs[i].weight_value, particles_[o][p].mass)])
\* the mass the particles of object o with an ordinary corner put on node n
OwnGridMass(enriched, o, n) ==
    SumOver({p \in 1..particleNumOfObject(o) : ~IsEnrichedParticle(enriched, o, p)},
            [p \in 1..particleNumOfObject(o) |-> ParticleNodeMass(o, p, n)])
\* the objects with mass above epsilon at node n
SharingObjects(enriched, n) ==
    {o \in 1..objectNum : OwnGridMass(enriched, o, n) > epsilon}
RasterizeDone == pc = "rasterize" /\ pc' = "constitutive"

\* mass, velocity and buffered velocity of the objects sharing node n
MergedUniform(n) ==
    LET S == SharingObjects(is_enriched_domain_corner_', n) IN
    Cardinality(S) >= 2 =>
        /\ \A o \in S :
               grid_mass_'[n][o] =
                   SumOver(S, [x \in S |-> OwnGridMass(is_enriched_domain_corner_', x, n)])
        /\ \A o \in S : \A q \in S : grid_velocity_'[n][o] = grid_velocity_'[n][q]
        /\ \A o \in S : grid_velocity_before_'[n][o] = grid_velocity_'[n][o]
\* the sharing objects that flag node n Dirichlet
DirichletSharing(n) ==
    SharingObjects(is_enriched_domain_corner_', n) \cap is_dirichlet_grid_node_[n]
\* the objects that flag node n Dirichlet and hold a velocity there when the
\* merge runs, with or without mass at the node
DirichletHolding(n) ==
    (DOMAIN grid_velocity_[n] \cup SharingObjects(is_enriched_domain_corner_', n))
        \cap is_dirichlet_grid_node_[n]

\* C2 (as amended): no-contact merge.  With no contact method, after
\* rasterize all objects with mass above epsilon at a shared node report the
\* summed mass and one velocity, grid_velocity_before_ equals it, and if some
\* object that flags the node Dirichlet holds a velocity there, that velocity
\* is the Dirichlet velocity of the lowest-indexed such object.
C2_NoContactMerge ==
    [][(RasterizeDone /\ ~contact_method_) =>
          \A n \in Nodes :
              /\ MergedUniform(n)
              /\ Cardinality(SharingObjects(is_enriched_domain_corner_', n)) >= 2 =>
                     (DirichletHolding(n) # {} =>
                         \A o \in SharingObjects(is_enriched_domain_corner_', n) :
                             grid_velocity_'[n][o] =
                                 MapAt(grid_velocity_[n], MinOf(DirichletHolding(n)),
                                       zero_vel))]_vars
\* C2 as stated: ... and if any of the objects flags the node Dirichlet, every
\* object at the node reports that object's Dirichlet velocity.
C2_AsStated ==
    [][(RasterizeDone /\ ~contact_method_) =>
          \A n \in Nodes :
              /\ MergedUniform(n)
              /\ Cardinality(SharingObjects(is_enriched_domain_corner_', n)) >= 2 =>
                     \A d \in DirichletSharing(n) :
                         \A o \in SharingObjects(is_enriched_domain_corner_', n) :
                             grid_velocity_'[n][o] = grid_velocity_[n][d]]_vars
\* two objects were merged at a node that one of them flags Dirichlet
C2_Witness ==
    /\ pc = "constitutive" /\ ~contact_method_
    /\ \E n \in Nodes :
          /\ Cardinality(SharingObjects(is_enriched_domain_corner_, n)) >= 2
          /\ SharingObjects(is_enriched_domain_corner_, n) \cap is_dirichlet_grid_node_[n] # {}
          /\ \E o \in SharingObjects(is_enriched_domain_corner_, n) :
                o \notin is_dirichlet_grid_node_[n]

\* grid-node masses plus domain-corner masses of object o
RasterizedMassOfObject(o) ==
    SumOver(Nodes, [n \in Nodes |-> gridMass(o, n)])
        + SumOver(1..vertNum(particle_domain_mesh_[o]), domain_corner_mass_[o])
ParticleMassOfObject(o) ==
    SumOver(1..particleNumOfObject(o),
            [p \in 1..particleNumOfObject(o) |-> particles_[o][p].mass])

\* C3 as stated: mass conservation.  After rasterize, for every object and
\* any enrichment configuration of its corners, the sum of the object's
\* grid-node masses plus the sum of its domain-corner masses equals the sum of
\* the masses of its particles.
C3_MassConservation ==
    pc = "constitutive" =>
        \A o \in 1..objectNum : RasterizedMassOfObject(o) = ParticleMassOfObject(o)

AllDeterminantsPositive ==
    \A o \in 1..objectNum : \A p \in 1..particleNumOfObject(o) :
        determinant(particles_[o][p].deformationGradient) > 0

\* C4 as stated: determinant positivity.  If every particle has det(F) > 0
\* before updateParticleConstitutiveModelState(dt), then for every velocity
\* gradient and dt the call leaves det(F) > 0 and its assertion does not fail,
\* the remedy branch included.
C4_DeterminantPositive ==
    [][(pc = "constitutive" /\ AllDeterminantsPositive) =>
          (pc' # "aborted" /\ AllDeterminantsPositive')]_vars

\* every per-particle domain corner equals the mesh vertex at its global index
DomainMeshConsistent ==
    /\ MeshCoversParticles
    /\ \A o \in 1..objectNum : \A p \in 1..particleNumOfObject(o) :
           \A c \in 1..corner_num :
               particle_domain_corners_[o][p][c] =
                   particle_domain_mesh_[o].vert[eleVertIndex(o, p, c)]

\* C5: domain-mesh consistency.  If the per-particle domain corners equal the
\* mesh vertices at their global corner indices before updateParticlePosition,
\* they do so after it, shared corners and objects mixing enriched and
\* ordinary corners included.
C5_DomainMeshConsistency ==
    [][(pc = "position" /\ DomainMeshConsistent) =>
          (pc' = "idle" /\ DomainMeshConsistent')]_vars
\* a step has moved an object that has a corner shared by two particles, an
\* enriched corner and an ordinary corner
C5_Witness ==
    /\ pc = "idle" /\ hook = "onUpdateParticlePosition"
    /\ DomainMeshConsistent
    /\ \E o \in 1..objectNum :
          /\ \E g \in 1..vertNum(particle_domain_mesh_[o]) :
                /\ SharesCorner(o, 1, g)
                /\ particleNumOfObject(o) >= 2 /\ SharesCorner(o, 2, g)
          /\ \E g \in 1..vertNum(particle_domain_mesh_[o]) : is_enriched_domain_corner_[o][g]
          /\ \E g \in 1..vertNum(particle_domain_mesh_[o]) : ~is_enriched_domain_corner_[o][g]
          /\ particle_domain_corners_[o][1] # ParticleKinds[particles_[o][1].kind].corners

\* momentum particle p of object o puts on node n when it rasterizes to the grid
ParticleNodeMomentum(o, p, n) ==
    LET pairs == particle_grid_weight_and_gradient_[o][p]
        at_node == {i \in DOMAIN pairs : pairs[i].node_idx = n}
        part(k) == [i \in DOMAIN pairs |->
                       WVec(pairs[i].weight_value,
                            VScale(particles_[o][p].mass, particles_[o][p].velocity))[k]]
    IN <<SumOver(at_node, part(1)), SumOver(at_node, part(2))>>
OwnGridMomentum(enriched, o, n) ==
    LET gets == {p \in 1..particleNumOfObject(o) : ~IsEnrichedParticle(enriched, o, p)}
        part(k) == [p \in 1..particleNumOfObject(o) |-> ParticleNodeMomentum(o, p, n)[k]]
    IN <<SumOver(gets, part(1)), SumOver(gets, part(2))>>
\* the (particle, local corner) slots that add to corner g of object o
SlotsOfCorner(enriched, o, g) ==
    {<<p, c>> \in (1..particleNumOfObject(o)) \X (1..corner_num) :
        eleVertIndex(o, p, c) = g /\ enriched[o][g]}
ExpectedCornerMass(enriched, o, g) ==
    LET slots == SlotsOfCorner(enriched, o, g) IN
    SumOver(slots, [s \in slots |->
                       WMul(particle_corner_weight_[o][s[1]][s[2]], particles_[o][s[1]].mass)])
ExpectedCornerMomentum(enriched, o, g) ==
    LET slots == SlotsOfCorner(enriched, o, g)
        part(k) == [s \in slots |->
                       WVec(particle_corner_weight_[o][s[1]][s[2]],
                            VScale(particles_[o][s[1]].mass, particles_[o][s[1]].velocity))[k]]
    IN <<SumOver(slots, part(1)), SumOver(slots, part(2))>>
\* node n keeps the values of object o (no merge took place there)
Unmerged(o, n) ==
    contact_method_ \/ Cardinality(SharingObjects(is_enriched_domain_corner_, n)) <= 1
\* the grid received exactly the particles with an ordinary corner
GridTargetsGated ==
    \A o \in 1..objectNum : \A n \in Nodes :
        Unmerged(o, n) =>
            /\ gridMass(o, n) = OwnGridMass(is_enriched_domain_corner_, o, n)
            /\ (gridMass(o, n) > epsilon /\ o \notin is_dirichlet_grid_node_[n]) =>
                   gridVelocity(o, n) =
                       VDiv(OwnGridMomentum(is_enriched_domain_corner_, o, n), gridMass(o, n))
\* every corner received exactly its enriched slots
CornerTargetsGated ==
    \A o \in 1..objectNum : \A g \in 1..vertNum(particle_domain_mesh_[o]) :
        /\ domain_corner_mass_[o][g] = ExpectedCornerMass(is_enriched_domain_corner_, o, g)
        /\ domain_corner_mass_[o][g] > epsilon =>
               domain_corner_velocity_[o][g] =
                   VDiv(ExpectedCornerMomentum(is_enriched_domain_corner_, o, g),
                        domain_corner_mass_[o][g])

\* C6: particle classification gates the rasterization targets.  After
\* rasterize the grid holds the mass and momentum of exactly the particles
\* with at least one ordinary corner, and a domain corner holds the mass and
\* momentum of exactly the particles it belongs to if it is enriched and
\* nothing otherwise: a fully enriched particle adds nothing to the grid and
\* an ordinary particle adds nothing to any corner.
C6_ClassificationGates ==
    pc = "constitutive" => (GridTargetsGated /\ CornerTargetsGated)
\* rasterize has handled an enriched particle and a transient particle
C6_Witness ==
    /\ pc = "constitutive"
    /\ \E o \in 1..objectNum : \E p \in 1..particleNumOfObject(o) :
          \E q \in 1..particleNumOfObject(o) :
              /\ IsEnrichedParticle(is_enriched_domain_corner_, o, p)
              /\ ~IsEnrichedParticle(is_enriched_domain_corner_, o, q)
              /\ ~IsOrdinaryParticle(is_enriched_domain_corner_, o, q)
              /\ \E n \in Nodes : Unmerged(o, n) /\ gridMass(o, n) > epsilon

\* the flags are exactly the requests of this step
FlagsAreThisStepsRequests ==
    \A o \in 1..objectNum : \A g \in 1..vertNum(particle_domain_mesh_[o]) :
        is_enriched_domain_corner_[o][g] <=> CornerRequested(o, g)
\* a corner that is ordinary in this step holds nothing of an earlier step
OrdinaryCornersCleared ==
    \A o \in 1..objectNum : \A g \in 1..vertNum(particle_domain_mesh_[o]) :
        ~is_enriched_domain_corner_[o][g] =>
            /\ domain_corner_mass_[o][g] = 0
            /\ domain_corner_velocity_[o][g] = zero_vel
            /\ domain_corner_velocity_before_[o][g] = zero_vel
\* every particle was rasterized against the final flags of its corners
AccumulatedUnderFinalFlags ==
    \A o \in 1..objectNum : \A g \in 1..vertNum(particle_domain_mesh_[o]) :
        is_enriched_domain_corner_[o][g] =>
            /\ domain_corner_mass_[o][g] =
                   ExpectedCornerMass(is_enriched_domain_corner_, o, g)
            /\ domain_corner_mass_[o][g] > epsilon =>
                   domain_corner_velocity_before_[o][g] = domain_corner_velocity_[o][g]

\* C7: per-step reset and classification before rasterization.  After every
\* rasterize a corner is enriched iff some particle sharing it satisfies the
\* criterion in this step, whatever the flags of the previous step were; the
\* corners that are ordinary hold zero mass, velocity and pre-update velocity,
\* and the enriched ones hold what all their particles add under the final
\* classification.
C7_ResetThenClassify ==
    pc = "constitutive" =>
        (FlagsAreThisStepsRequests /\ OrdinaryCornersCleared /\ AccumulatedUnderFinalFlags)
\* a later step in which no particle requests enrichment, for an object whose
\* particle took the gravity of enriched corners in an earlier step
C7_Witness ==
    /\ pc = "constitutive" /\ step >= 2
    /\ \E o \in 1..objectNum :
          /\ \A g \in 1..vertNum(particle_domain_mesh_[o]) : ~is_enriched_domain_corner_[o][g]
          /\ \E p \in 1..particleNumOfObject(o) :
                particles_[o][p].velocity[2] < ParticleKinds[particles_[o][p].kind].velocity[2]

\* FLIP increment of particle p of object o from its grid pairs
FlipGridIncrement(o, p) ==
    LET pairs == particle_grid_weight_and_gradient_[o][p]
        used == {i \in DOMAIN pairs : gridMass(o, pairs[i].node_idx) > epsilon}
        part(k) == [i \in DOMAIN pairs |->
                       WVec(pairs[i].weight_value,
                            VSub(grid_velocity_[pairs[i].node_idx][o],
                                 grid_velocity_before_[pairs[i].node_idx][o]))[k]]
    IN IF IsEnrichedParticle(is_enriched_domain_corner_, o, p) THEN zero_vel
       ELSE <<SumOver(used, part(1)), SumOver(used, part(2))>>
\* FLIP increment of particle p of object o from its enriched corners, with the
\* particle's own corner weights
FlipCornerIncrement(o, p) ==
    LET enriched == EnrichedCornersOf(is_enriched_domain_corner_, o, p)
        part(k) == [c \in 1..corner_num |->
                       WVec(particle_corner_weight_[o][p][c],
                            VSub(domain_corner_velocity_[o][eleVertIndex(o, p, c)],
                                 domain_corner_velocity_before_[o][eleVertIndex(o, p, c)]))[k]]
    IN <<SumOver(enriched, part(1)), SumOver(enriched, part(2))>>

\* C8 as stated: FLIP velocity update.  updateParticleVelocity sets the
\* velocity of every non-Dirichlet particle p of object o to its pre-step
\* velocity plus the weighted grid velocity changes over its grid pairs with
\* node mass above epsilon, plus the sum over its enriched corners c of
\* particle_corner_weight_[o][p][c] times the corner velocity change.
C8_FlipVelocityUpdate ==
    [][(pc = "velocity" /\ pc' = "position") =>
          \A o \in 1..objectNum : \A p \in 1..particleNumOfObject(o) :
              ~is_dirichlet_particle_[o][p] =>
                  particles_'[o][p].velocity =
                      VAdd(VAdd(particles_[o][p].velocity, FlipGridIncrement(o, p)),
                           FlipCornerIncrement(o, p))]_vars

\* the mesh of every object has one element per particle and the per-corner
\* arrays have one entry per mesh vertex
MeshFollowsParticles ==
    /\ Len(particle_domain_mesh_) = objectNum
    /\ Len(is_enriched_domain_corner_) = objectNum /\ Len(domain_corner_mass_) = objectNum
    /\ Len(domain_corner_velocity_) = objectNum
    /\ Len(domain_corner_velocity_before_) = objectNum
    /\ \A o \in 1..objectNum :
          /\ eleNum(particle_domain_mesh_[o]) = particleNumOfObject(o)
          /\ Len(is_enriched_domain_corner_[o]) = vertNum(particle_domain_mesh_[o])
          /\ Len(domain_corner_mass_[o]) = vertNum(particle_domain_mesh_[o])
          /\ Len(domain_corner_velocity_[o]) = vertNum(particle_domain_mesh_[o])
          /\ Len(domain_corner_velocity_before_[o]) = vertNum(particle_domain_mesh_[o])

\* C9 as stated: the domain mesh follows the particle set.  Once the meshes
\* have been built, whatever objects or particles are added or deleted, when
\* the next step has started every object's mesh has exactly one element per
\* current particle and every per-corner array has the length of the mesh's
\* vertex count.
C9_MeshFollowsParticles ==
    (pc = "rasterize" /\ particle_domain_mesh_ # << >>) => MeshFollowsParticles

\* one record of corner_num values per particle of every object
LockstepShape ==
    /\ Len(particle_corner_weight_) = objectNum
    /\ Len(particle_corner_gradient_) = objectNum
    /\ \A o \in 1..objectNum :
          /\ Len(particle_corner_weight_[o]) = particleNumOfObject(o)
          /\ Len(particle_corner_gradient_[o]) = particleNumOfObject(o)
          /\ \A p \in 1..particleNumOfObject(o) :
                /\ DOMAIN particle_corner_weight_[o][p] = 1..corner_num
                /\ DOMAIN particle_corner_gradient_[o][p] = 1..corner_num
\* the records of object o move as its particles do
RecordsFollowParticlesOf(o) ==
    LET n == particleNumOfObject(o) IN
    CASE Len(particles_'[o]) = n + 1 ->
             /\ SubSeq(particle_corner_weight_'[o], 1, n) = particle_corner_weight_[o]
             /\ SubSeq(particle_corner_gradient_'[o], 1, n) = particle_corner_gradient_[o]
      [] Len(particles_'[o]) = n - 1 ->
             \E p \in 1..n :
                 /\ particles_'[o] = RemoveAt(particles_[o], p)
                 /\ particle_corner_weight_'[o] = RemoveAt(particle_corner_weight_[o], p)
                 /\ particle_corner_gradient_'[o] = RemoveAt(particle_corner_gradient_[o], p)
      [] OTHER ->
             /\ particle_corner_weight_'[o] = particle_corner_weight_[o]
             /\ particle_corner_gradient_'[o] = particle_corner_gradient_[o]
\* the records move as the objects and particles do
RecordsFollowParticles ==
    CASE Len(particles_') = objectNum + 1 ->
             /\ SubSeq(particle_corner_weight_', 1, objectNum) = particle_corner_weight_
             /\ SubSeq(particle_corner_gradient_', 1, objectNum) = particle_corner_gradient_
      [] Len(particles_') = objectNum - 1 ->
             \E o \in 1..objectNum :
                 /\ particles_' = RemoveAt(particles_, o)
                 /\ particle_corner_weight_' = RemoveAt(particle_corner_weight_, o)
                 /\ particle_corner_gradient_' = RemoveAt(particle_corner_gradient_, o)
      [] OTHER -> \A o \in 1..objectNum : RecordsFollowParticlesOf(o)

GridReadsOfParticle(o, p) ==
    {<<"grid", o, particle_grid_weight_and_gradient_[o][p][i].node_idx>> :
        i \in DOMAIN particle_grid_weight_and_gradient_[o][p]}
EnrichedCornerReadsOfParticle(o, p) ==
    {<<"corner", o, eleVertIndex(o, p, c)>> :
        c \in EnrichedCornersOf(is_enriched_domain_corner_, o, p)}
ParticleSlots == {<<o, p>> \in (1..objectNum) \X (1..MaxParticles + 1) :
                     p <= particleNumOfObject(o)}
\* gridVelocity(obj_idx,node_idx) and domain_corner_velocity_[obj_idx][global_corner_idx]
\* as read by updateParticleConstitutiveModelState
ConstitutiveReads ==
    UNION {(IF GetsGridInfluence(enrichedCornerNum(is_enriched_domain_corner_, s[1], s[2]))
            THEN GridReadsOfParticle(s[1], s[2]) ELSE {})
           \cup EnrichedCornerReadsOfParticle(s[1], s[2]) : s \in ParticleSlots}
\* the velocities solveOnGridForwardEuler adds a force increment to
SolveForceReads ==
    UNION {(IF GetsGridInfluence(enrichedCornerNum(is_enriched_domain_corner_, s[1], s[2]))
            THEN UNION {{<<"grid", t, loc[3]>> :
                            t \in SolveTargets(grid_velocity_[loc[3]], grid_mass_[loc[3]],
                                               is_dirichlet_grid_node_[loc[3]], s[1])} :
                        loc \in GridReadsOfParticle(s[1], s[2])}
            ELSE {})
           \cup {loc \in EnrichedCornerReadsOfParticle(s[1], s[2]) :
                    domain_corner_mass_[loc[2]][loc[3]] > epsilon} : s \in ParticleSlots}
\* the velocities applyGravityOnEnrichedDomainCorner adds dt*(-1)*gravity_ to
GravityReads ==
    {<<"corner", o, g>> : <<o, g>> \in
        {x \in (1..objectNum) \X (1..(MaxParticles + 1) * corner_num) :
            /\ x[2] \in DOMAIN domain_corner_velocity_[x[1]]
            /\ is_enriched_domain_corner_[x[1]][x[2]]}}
\* the velocities updateParticleVelocity interpolates to the particles
VelocityReads ==
    UNION {IF is_dirichlet_particle_[s[1]][s[2]] THEN {}
           ELSE (IF GetsGridInfluence(enrichedCornerNum(is_enriched_domain_corner_, s[1], s[2]))
                 THEN {loc \in GridReadsOfParticle(s[1], s[2]) :
                          gridMass(loc[2], loc[3]) > epsilon}
                 ELSE {})
                \cup EnrichedCornerReadsOfParticle(s[1], s[2]) : s \in ParticleSlots}
\* the velocities updateParticlePosition moves the domain corners with
PositionReads ==
    UNION {UNION {IF is_enriched_domain_corner_[s[1]][eleVertIndex(s[1], s[2], c)]
                  THEN {<<"corner", s[1], eleVertIndex(s[1], s[2], c)>>}
                  ELSE {<<"grid", s[1],
                          corner_grid_weight_and_gradient_[s[1]][s[2]][c][i].node_idx>> :
                           i \in DOMAIN corner_grid_weight_and_gradient_[s[1]][s[2]][c]} :
                  c \in 1..corner_num} : s \in ParticleSlots}
\* the mass that corresponds to a velocity location
MassOfLocation(loc) ==
    IF loc[1] = "grid" THEN gridMass(loc[2], loc[3]) ELSE domain_corner_mass_[loc[2]][loc[3]]
ReadsOfPhase ==
    CASE pc = "constitutive" -> ConstitutiveReads
      [] pc = "solve" -> SolveForceReads \cup GravityReads
      [] pc = "velocity" -> VelocityReads
      [] pc = "position" /\ IsCPDI2UpdateMethod -> PositionReads
      [] OTHER -> {}
MassesNonNegative ==
    /\ \A n \in Nodes : \A o \in DOMAIN grid_mass_[n] : grid_mass_[n][o] >= 0
    /\ \A o \in DOMAIN domain_corner_mass_ : \A g \in DOMAIN domain_corner_mass_[o] :
           domain_corner_mass_[o][g] >= 0

\* C11 as stated: velocities are never read where mass is near zero.  In every
\* phase of a step after rasterization the velocity of a grid node for an
\* object, or of a domain corner, is read only if the corresponding mass
\* exceeds epsilon, and every grid-node and corner mass is >= 0.
C11_NoReadAtZeroMass ==
    /\ MassesNonNegative
    /\ \A loc \in ReadsOfPhase : MassOfLocation(loc) > epsilon

\* ------------------------------------------------ weights used by rasterize
\* the weights rasterize multiplies the mass of particle p of object o with:
\* its grid pairs if it gets influence from the grid, the corner weights of
\* its enriched corners if it gets influence from the corners
UsedGridWeightSum(o, p) ==
    LET pairs == particle_grid_weight_and_gradient_[o][p] IN
    IF GetsGridInfluence(enrichedCornerNum(is_enriched_domain_corner_, o, p))
    THEN SumOver(DOMAIN pairs, [i \in DOMAIN pairs |-> pairs[i].weight_value])
    ELSE 0
UsedCornerWeightSum(o, p) ==
    IF GetsCornerInfluence(enrichedCornerNum(is_enriched_domain_corner_, o, p))
    THEN SumOver(EnrichedCornersOf(is_enriched_domain_corner_, o, p),
                 particle_corner_weight_[o][p])
    ELSE 0

\* C12 as stated: partition of unity of the weights used for mass
\* rasterization.  For every particle, ordinary, transient or enriched, the
\* sum of its grid-influence weights (used when it is ordinary or transient)
\* plus the corner weights of its enriched corners (used when it is transient
\* or enriched) equals 1.
C12_PartitionOfUnity ==
    pc = "constitutive" =>
        \A o \in 1..objectNum : \A p \in 1..particleNumOfObject(o) :
            UsedGridWeightSum(o, p) + UsedCornerWeightSum(o, p) = WeightUnit

\* ------------------------------------------------------ configuration error
ParticlePositions ==
    [o \in DOMAIN particles_ |-> [p \in DOMAIN particles_[o] |-> particles_[o][p].position]]
\* the vertex positions of the domain meshes
MeshVertices == [o \in DOMAIN particle_domain_mesh_ |-> particle_domain_mesh_[o].vert]
\* updateParticlePosition is running / updateParticleInterpolationWeight runs
InUpdateParticlePosition == pc = "position"
UpdateParticleInterpolationWeightRuns == pc = "idle" /\ step' = step + 1

\* C13: configuration error.  If the installed update method is not CPDI2,
\* updateParticlePosition(dt) and updateParticleInterpolationWeight() each end
\* in the aborting error outcome, and updateParticlePosition invokes no plugin
\* hook and changes no per-particle domain corner, no domain-mesh vertex and
\* no particle position.
C13_ConfigurationError ==
    [][(cpdi_update_method_ # "CPDI2") =>
          /\ UpdateParticleInterpolationWeightRuns => pc' = "error"
          /\ InUpdateParticlePosition =>
                 /\ pc' = "error"
                 /\ hook' = hook
                 /\ particle_domain_corners_' = particle_domain_corners_
                 /\ MeshVertices' = MeshVertices
                 /\ ParticlePositions' = ParticlePositions]_vars
\* the error outcome of updateParticlePosition, called after a completed step
\* (the step counter is not advanced, the grid holds the step's masses) with
\* another update method installed
C13_Witness ==
    /\ pc = "error" /\ cpdi_update_method_ # "CPDI2"
    /\ step = 1 /\ hook = "onUpdateParticlePosition"
    /\ \E n \in Nodes : grid_mass_[n] # << >>

\* ----------------------------------------------------- near-zero conditions
\* the masses rasterize divides by: corner masses (line 160), grid masses of
\* the active non-Dirichlet entries (line 186), mass_at_node of the nodes
\* that are merged (line 211)
RasterizeDivisors ==
    LET reset == resetParticleDomainData
        enriched == updateParticleDomainEnrichState(reset.enriched)
        acc == RasterizeObjects(
                   [grid |-> resetGridData,
                    corner |-> [mass |-> reset.mass, velocity |-> reset.velocity,
                                before |-> reset.before]],
                   enriched, 1)
        normalized == NormalizeGrid(acc.grid)
    IN UNION {{acc.corner.mass[o][g] : g \in {h \in DOMAIN acc.corner.mass[o] :
                                                 acc.corner.mass[o][h] > epsilon}} :
              o \in 1..objectNum}
       \cup UNION {{acc.grid.mass[n][o] :
                       o \in ActiveObjects(acc.grid.mass, n) \ is_dirichlet_grid_node_[n]} :
                   n \in Nodes}
       \cup (IF contact_method_ THEN {}
             ELSE {SumOver(ActiveObjects(normalized.mass, n), normalized.mass[n]) :
                      n \in {m \in Nodes :
                                Cardinality(ActiveObjects(normalized.mass, m)) >= 2}})
\* the masses solveOnGridForwardEuler divides by: grid_mass_ of the particle's
\* own object at the nodes that are not skipped (lines 468, 476), the mass of
\* the enriched corners that are not skipped (line 492)
SolveDivisors ==
    UNION {(IF GetsGridInfluence(enrichedCornerNum(is_enriched_domain_corner_, s[1], s[2]))
            THEN {gridMass(s[1], loc[3]) :
                     loc \in {l \in GridReadsOfParticle(s[1], s[2]) :
                                 /\ s[1] \notin is_dirichlet_grid_node_[l[3]]
                                 /\ gridMass(s[1], l[3]) > epsilon
                                 /\ (contact_method_ \/ is_dirichlet_grid_node_[l[3]] = {})}}
            ELSE {})
           \cup {domain_corner_mass_[loc[2]][loc[3]] :
                    loc \in {l \in EnrichedCornerReadsOfParticle(s[1], s[2]) :
                                domain_corner_mass_[l[2]][l[3]] > epsilon}} :
           s \in ParticleSlots}
\* the force term of solveOnGridForwardEuler leaves alone what has near-zero mass
NearZeroSkippedBySolve ==
    /\ \A n \in Nodes : \A o \in DOMAIN grid_velocity_[n] :
           gridMass(o, n) <= epsilon => grid_velocity_'[n][o] = grid_velocity_[n][o]
    /\ \A o \in 1..objectNum : \A g \in DOMAIN domain_corner_velocity_[o] :
           domain_corner_mass_[o][g] <= epsilon =>
               domain_corner_velocity_'[o][g] =
                   applyGravityOnEnrichedDomainCorner(domain_corner_velocity_, dt)[o][g]
\* a near-zero condition is met by the step: a grid pair of a particle that gets
\* influence from the grid at a node where its object's mass is not above
\* epsilon, an enriched corner whose mass is not above epsilon, a corner
\* weight that is not above epsilon
NearZeroGridMass ==
    \E s \in ParticleSlots :
        /\ ~is_dirichlet_particle_[s[1]][s[2]]
        /\ GetsGridInfluence(enrichedCornerNum(is_enriched_domain_corner_, s[1], s[2]))
        /\ \E loc \in GridReadsOfParticle(s[1], s[2]) : gridMass(s[1], loc[3]) <= epsilon
NearZeroCornerMass ==
    \E s \in ParticleSlots :
        \E loc \in EnrichedCornerReadsOfParticle(s[1], s[2]) :
            domain_corner_mass_[loc[2]][loc[3]] <= epsilon
NearZeroWeight ==
    \E s \in ParticleSlots : \E c \in 1..corner_num :
        particle_corner_weight_[s[1]][s[2]][c] <= epsilon

C15_CornerNormalization ==
    pc = "constitutive" =>
        \A o \in 1..objectNum : \A g \in 1..vertNum(particle_domain_mesh_[o]) :
            IF domain_corner_mass_[o][g] > epsilon
            THEN /\ domain_corner_velocity_[o][g] =
                        VDiv(ExpectedCornerMomentum(is_enriched_domain_corner_, o, g),
                             domain_corner_mass_[o][g])
                 /\ domain_corner_velocity_before_[o][g] = domain_corner_velocity_[o][g]
            ELSE /\ domain_corner_velocity_[o][g] = zero_vel
                 /\ domain_corner_velocity_before_[o][g] = zero_vel

\* ------------------------------------------------ Dirichlet nodes in rasterize
\* node n keeps the values of object o after the step's rasterize
UnmergedAfter(o, n) ==
    contact_method_ \/ Cardinality(SharingObjects(is_enriched_domain_corner_', n)) <= 1
\* the velocity of object o at node n right after the grid reset
VelocityAfterReset(o, n) == MapAt(resetGridData.velocity[n], o, zero_vel)

\* C16: Dirichlet nodes in rasterization.  For a grid node flagged Dirichlet
\* for object o, rasterize adds weight*mass of each contributing particle of o
\* to the node's mass for o, adds no momentum to and performs no division on
\* the node's velocity for o, so that, absent a merge with another object, the
\* velocity equals the value it had right after the grid reset, and it is
\* copied to the pre-update snapshot.
C16_DirichletRasterize ==
    [][RasterizeDone =>
          \A n \in Nodes : \A o \in is_dirichlet_grid_node_[n] :
              UnmergedAfter(o, n) =>
                  /\ MapAt(grid_mass_'[n], o, 0) =
                         IF o <= objectNum
                         THEN OwnGridMass(is_enriched_domain_corner_', o, n) ELSE 0
                  /\ MapAt(grid_velocity_'[n], o, zero_vel) = VelocityAfterReset(o, n)
                  /\ MapAt(grid_mass_'[n], o, 0) > epsilon =>
                         /\ o \in DOMAIN grid_velocity_before_'[n]
                         /\ grid_velocity_before_'[n][o] = VelocityAfterReset(o, n)]_vars
\* rasterize has put the mass of a moving particle on a node that is Dirichlet
\* for its object and holds a prescribed velocity, and no merge took place
C16_Witness ==
    /\ pc = "constitutive"
    /\ \E n \in Nodes : \E o \in is_dirichlet_grid_node_[n] \cap (1..objectNum) :
          /\ Unmerged(o, n)
          /\ gridMass(o, n) > epsilon
          /\ OwnGridMomentum(is_enriched_domain_corner_, o, n) # zero_vel
          /\ gridVelocity(o, n) # zero_vel
          /\ grid_velocity_before_[n][o] = gridVelocity(o, n)

\* ------------------------------------------------- explicit solve on the grid
SolveDone == pc = "solve" /\ pc' = "velocity"
\* the grid pairs <<p, i>> of object q that lie on node n and are not skipped:
\* the particle has an ordinary corner and the mass of q at n is above epsilon
ForcePairsOfObject(q, n) ==
    UNION {{<<p, i>> : i \in {j \in DOMAIN particle_grid_weight_and_gradient_[q][p] :
                                 particle_grid_weight_and_gradient_[q][p][j].node_idx = n}} :
           p \in {r \in 1..particleNumOfObject(q) :
                      /\ ~IsEnrichedParticle(is_enriched_domain_corner_, q, r)
                      /\ gridMass(q, n) > epsilon}}
\* the sum of the internal-force increments of the particles of object q at n
ObjectNodeIncrement(q, n) ==
    LET slots == ForcePairsOfObject(q, n)
        part(k) == [s \in slots |->
                       ForceIncrement(dt, particles_[q][s[1]],
                           particle_grid_weight_and_gradient_[q][s[1]][s[2]].gradient_value,
                           gridMass(q, n))[k]]
    IN <<SumOver(slots, part(1)), SumOver(slots, part(2))>>
\* the sum over the particles of all objects
NodeIncrement(n) ==
    <<SumOver(1..objectNum, [q \in 1..objectNum |-> ObjectNodeIncrement(q, n)[1]]),
      SumOver(1..objectNum, [q \in 1..objectNum |-> ObjectNodeIncrement(q, n)[2]])>>

\* C17: explicit solve without a contact method.  solveOnGridForwardEuler
\* changes no object's velocity at a grid node that any object flags
\* Dirichlet, and at every other node it adds the internal-force increment of
\* each ordinary or transient particle whose node mass is above epsilon to the
\* velocity of every object with mass above epsilon at that node, not only to
\* the velocity of the particle's own object.
C17_SolveWithoutContact ==
    [][(SolveDone /\ ~contact_method_) =>
          \A n \in Nodes :
              IF is_dirichlet_grid_node_[n] # {}
              THEN grid_velocity_'[n] = grid_velocity_[n]
              ELSE \A o \in 1..objectNum :
                      IF gridMass(o, n) > epsilon
                      THEN /\ o \in DOMAIN grid_velocity_'[n]
                           /\ grid_velocity_'[n][o] =
                                  VAdd(gridVelocity(o, n), NodeIncrement(n))
                      ELSE MapAt(grid_velocity_'[n], o, zero_vel) = gridVelocity(o, n)]_vars
\* the solve has changed the velocity of an object at a node without Dirichlet
\* flags by the increment of a particle of another object
C17_Witness ==
    /\ pc = "velocity" /\ ~contact_method_
    /\ \E n \in Nodes : \E o \in 1..objectNum : \E q \in 1..objectNum :
          /\ is_dirichlet_grid_node_[n] = {}
          /\ o # q
          /\ gridMass(o, n) > epsilon
          /\ ObjectNodeIncrement(o, n) = zero_vel
          /\ ObjectNodeIncrement(q, n) # zero_vel
          /\ grid_velocity_[n][o] # grid_velocity_before_[n][o]

\* ------------------------------------------------ objects under a contact method
\* mass and velocity of object o at node n come from the particles of o only
OwnValuesAfterRasterize(o, n) ==
    LET mass == OwnGridMass(is_enriched_domain_corner_', o, n)
        momentum == OwnGridMomentum(is_enriched_domain_corner_', o, n)
    IN /\ MapAt(grid_mass_'[n], o, 0) = mass
       /\ MapAt(grid_velocity_'[n], o, zero_vel) =
              IF o \in is_dirichlet_grid_node_[n] THEN VelocityAfterReset(o, n)
              ELSE IF mass > epsilon THEN VDiv(momentum, mass)
              ELSE momentum
\* the solve changes the velocity of object o at node n by the increments of
\* the particles of o only
OwnIncrementAfterSolve(o, n) ==
    MapAt(grid_velocity_'[n], o, zero_vel) =
        IF o \in is_dirichlet_grid_node_[n] THEN gridVelocity(o, n)
        ELSE VAdd(gridVelocity(o, n), ObjectNodeIncrement(o, n))

\* C18: with a contact method configured, objects stay independent on the
\* grid.  After rasterize the mass and velocity of each object at a node are
\* computed from that object's own particles only (no summation over objects,
\* no write-back), and solveOnGridForwardEuler changes at each node only the
\* velocity of the object that owns the contributing particle.
C18_ContactIndependence ==
    [][contact_method_ =>
          /\ RasterizeDone =>
                 \A n \in Nodes : \A o \in 1..objectNum : OwnValuesAfterRasterize(o, n)
          /\ SolveDone =>
                 \A n \in Nodes : \A o \in 1..objectNum : OwnIncrementAfterSolve(o, n)]_vars
\* under a contact method two objects hold different masses at one node, and
\* the solve has changed the velocity of one of them and not of the other
C18_Witness ==
    /\ pc = "velocity" /\ contact_method_
    /\ \E n \in Nodes : \E o \in 1..objectNum : \E q \in 1..objectNum :
          /\ gridMass(o, n) > epsilon /\ gridMass(q, n) > epsilon
          /\ gridMass(o, n) # gridMass(q, n)
          /\ grid_velocity_[n][o] # grid_velocity_before_[n][o]
          /\ grid_velocity_[n][q] = grid_velocity_before_[n][q]
          /\ grid_velocity_[n][o] # grid_velocity_[n][q]

\* ------------------------------------------------- construction of the mesh
\* a step of initSimulationData: the only action that leaves the control
\* state, the configuration and the particles alone
MeshBuilt ==
    pc = "idle" /\ UNCHANGED <<controlVars, configVars, particleVars>>
\* the (particle, local corner) slots of object o
CornerSlots(o) == (1..Len(particle_domain_corners_[o])) \X (1..corner_num)
SlotPosition(o, s) == particle_domain_corners_[o][s[1]][s[2]]
SlotVertex(o, s) == particle_domain_mesh_[o].ele[s[1]][s[2]]
\* the mesh of object o welds exactly the slots with equal positions
WeldedByPosition(o) ==
    LET mesh == particle_domain_mesh_[o] IN
    /\ eleNum(mesh) = Len(particle_domain_corners_[o])
    /\ \A s \in CornerSlots(o) : \A t \in CornerSlots(o) :
           (SlotVertex(o, s) = SlotVertex(o, t)) <=> (SlotPosition(o, s) = SlotPosition(o, t))
    /\ vertNum(mesh) = Cardinality({SlotPosition(o, s) : s \in CornerSlots(o)})
    /\ \A s \in CornerSlots(o) :
           /\ SlotVertex(o, s) \in 1..vertNum(mesh)
           /\ mesh.vert[SlotVertex(o, s)] = SlotPosition(o, s)
AllWeldedByPosition ==
    /\ Len(particle_domain_mesh_) = objectNum
    /\ \A o \in 1..objectNum : WeldedByPosition(o)

\* C19: domain-mesh construction welds corners by exact position.  After
\* constructParticleDomainMesh, for each object two (particle, local corner)
\* slots map to the same global corner index iff their corner positions are
\* equal, the vertex count of the mesh equals the number of distinct corner
\* positions of the object, and the position of each vertex equals the
\* position of every slot mapped to it.
C19_WeldByPosition ==
    [][MeshBuilt => AllWeldedByPosition']_vars
\* a mesh has been built for an object with two particles that share some
\* corners and not others
C19_Witness ==
    /\ pc = "idle" /\ objectNum >= 1 /\ AllWeldedByPosition
    /\ \E o \in 1..objectNum :
          /\ Len(particle_domain_corners_[o]) >= 2
          /\ \E s \in CornerSlots(o) : \E t \in CornerSlots(o) :
                s[1] # t[1] /\ SlotVertex(o, s) = SlotVertex(o, t)
          /\ vertNum(particle_domain_mesh_[o]) > corner_num

\* ------------------------------------------- per-corner arrays after a build
\* the four per-corner arrays of object o have one entry per mesh vertex
CornerArraysSized(o) ==
    LET vert_num == vertNum(particle_domain_mesh_[o]) IN
    /\ Len(is_enriched_domain_corner_[o]) = vert_num
    /\ Len(domain_corner_mass_[o]) = vert_num
    /\ Len(domain_corner_velocity_[o]) = vert_num
    /\ Len(domain_corner_velocity_before_[o]) = vert_num
\* every entry of the four arrays of object o is zero
CornerArraysZero(o) ==
    /\ \A g \in DOMAIN is_enriched_domain_corner_[o] : ~is_enriched_domain_corner_[o][g]
    /\ \A g \in DOMAIN domain_corner_mass_[o] : domain_corner_mass_[o][g] = 0
    /\ \A g \in DOMAIN domain_corner_velocity_[o] : domain_corner_velocity_[o][g] = zero_vel
    /\ \A g \in DOMAIN domain_corner_velocity_before_[o] :
           domain_corner_velocity_before_[o][g] = zero_vel
CornerArraysPerObject ==
    /\ Len(is_enriched_domain_corner_) = objectNum
    /\ Len(domain_corner_mass_) = objectNum
    /\ Len(domain_corner_velocity_) = objectNum
    /\ Len(domain_corner_velocity_before_) = objectNum

\* C20: per-corner arrays after a (re)build.  Every call of
\* constructParticleDomainMesh, including a rebuild after an earlier build and
\* earlier steps, leaves the enrichment-flag, corner-mass, corner-velocity and
\* pre-update-velocity arrays of each object with length equal to the new
\* vertex count and with every entry zero (flag ordinary, mass 0, velocities 0).
C20_ArraysZeroAfterBuild ==
    [][MeshBuilt =>
          (/\ CornerArraysPerObject
           /\ \A o \in 1..objectNum : CornerArraysSized(o) /\ CornerArraysZero(o))']_vars
\* the part of C20 about the lengths alone
ArraysSizedAfterBuild ==
    [][MeshBuilt =>
          (CornerArraysPerObject /\ \A o \in 1..objectNum : CornerArraysSized(o))']_vars

\* ------------------------------------------------------------ gravity pass
\* the sum of the internal-force increments the particles of object o add to
\* the velocity of its corner g (nothing where the corner is ordinary or its
\* mass is not above epsilon)
CornerForceIncrement(o, g) ==
    LET slots == IF domain_corner_mass_[o][g] > epsilon
                 THEN SlotsOfCorner(is_enriched_domain_corner_, o, g) ELSE {}
        part(k) == [s \in slots |->
                       ForceIncrement(dt, particles_[o][s[1]],
                           particle_corner_gradient_[o][s[1]][s[2]],
                           domain_corner_mass_[o][g])[k]]
    IN <<SumOver(slots, part(1)), SumOver(slots, part(2))>>
\* the velocity of object o at node n when the force loop is through
GridVelocityAfterForce(o, n) ==
    IF contact_method_
    THEN IF o \in is_dirichlet_grid_node_[n] THEN gridVelocity(o, n)
         ELSE VAdd(gridVelocity(o, n), ObjectNodeIncrement(o, n))
    ELSE IF is_dirichlet_grid_node_[n] # {} \/ gridMass(o, n) <= epsilon
         THEN gridVelocity(o, n)
         ELSE VAdd(gridVelocity(o, n), NodeIncrement(n))
\* the velocity of corner g of object o when the force loop is through
CornerVelocityAfterForce(o, g) ==
    VAdd(domain_corner_velocity_[o][g], CornerForceIncrement(o, g))

\* C21: gravity frame.  The gravity pass at the end of
\* solveOnGridForwardEuler changes exactly the vertical (index 1) velocity
\* component of each enriched domain corner by -dt*g, and leaves unchanged
\* every other velocity component of enriched corners, every velocity of
\* ordinary corners, and every grid-node mass and velocity: what the solve
\* leaves is what its force loop computed, plus -dt*g on the vertical
\* component of the enriched corners.
C21_GravityFrame ==
    [][SolveDone =>
          /\ \A o \in 1..objectNum : \A g \in 1..vertNum(particle_domain_mesh_[o]) :
                 domain_corner_velocity_'[o][g] =
                     IF is_enriched_domain_corner_[o][g]
                     THEN <<CornerVelocityAfterForce(o, g)[1],
                            CornerVelocityAfterForce(o, g)[2] - dt * gravity_>>
                     ELSE CornerVelocityAfterForce(o, g)
          /\ \A n \in Nodes : \A o \in 1..objectNum :
                 /\ MapAt(grid_mass_'[n], o, 0) = gridMass(o, n)
                 /\ MapAt(grid_velocity_'[n], o, zero_vel) = GridVelocityAfterForce(o, n)]_vars
\* the solve has run over an object with an enriched corner whose vertical
\* velocity changed, an ordinary corner, and a grid node whose velocity changed
C21_Witness ==
    /\ pc = "velocity"
    /\ \E o \in 1..objectNum :
          /\ \E g \in 1..vertNum(particle_domain_mesh_[o]) :
                /\ is_enriched_domain_corner_[o][g]
                /\ domain_corner_velocity_[o][g][2] # domain_corner_velocity_before_[o][g][2]
          /\ \E h \in 1..vertNum(particle_domain_mesh_[o]) :
                ~is_enriched_domain_corner_[o][h]
          /\ \E n \in Nodes :
                gridMass(o, n) > epsilon /\ gridVelocity(o, n) # grid_velocity_before_[n][o]

\* ------------------------------------------------ single-valued grid state
\* the objects with mass above epsilon at node n
OccupyingObjects(n) == {o \in 1..objectNum : gridMass(o, n) > epsilon}
\* all objects with mass above epsilon at node n report one mass and one
\* velocity
SingleValued(n) ==
    \A o \in OccupyingObjects(n) : \A q \in OccupyingObjects(n) :
        /\ o \in DOMAIN grid_velocity_[n] /\ q \in DOMAIN grid_velocity_[n]
        /\ grid_mass_[n][o] = grid_mass_[n][q]
        /\ grid_velocity_[n][o] = grid_velocity_[n][q]

\* C22: the single-valued grid state survives the explicit solve.  With no
\* contact method, in every state reached by rasterize followed by
\* solveOnGridForwardEuler, all objects that have mass above epsilon at the
\* same grid node report identical mass and identical velocity at that node.
C22_SingleValuedAfterSolve ==
    (pc = "velocity" /\ ~contact_method_) => \A n \in Nodes : SingleValued(n)
\* without a contact method the solve has changed the velocity at a node
\* shared by two objects whose own particles contribute different increments
C22_Witness ==
    /\ pc = "velocity" /\ ~contact_method_
    /\ \E n \in Nodes : \E o \in OccupyingObjects(n) : \E q \in OccupyingObjects(n) :
          /\ o # q
          /\ ObjectNodeIncrement(o, n) # ObjectNodeIncrement(q, n)
          /\ grid_velocity_[n][o] # grid_velocity_before_[n][o]
          /\ grid_velocity_[n][q] # grid_velocity_before_[n][q]

\* ------------------------------------------- lookups of updateParticleVelocity
\* the nodes updateParticleVelocity looks object o up at: the nodes in the
\* grid-influence list of a non-Dirichlet particle of o with an ordinary
\* corner, where the mass of o is above epsilon
LookupNodes(o) ==
    {n \in Nodes :
        \E p \in 1..particleNumOfObject(o) :
            /\ ~is_dirichlet_particle_[o][p]
            /\ ~IsEnrichedParticle(is_enriched_domain_corner_, o, p)
            /\ \E i \in DOMAIN particle_grid_weight_and_gradient_[o][p] :
                   particle_grid_weight_and_gradient_[o][p][i].node_idx = n
            /\ gridMass(o, n) > epsilon}
LookupEntriesPresent ==
    \A o \in 1..objectNum : \A n \in LookupNodes(o) :
        o \in DOMAIN grid_velocity_[n] /\ o \in DOMAIN grid_velocity_before_[n]

\* C23: the fatal lookup error of updateParticleVelocity is unreachable
\* within a well-formed step.  After rasterize (with or without the merge,
\* with or without Dirichlet nodes) and solveOnGridForwardEuler, for every
\* object o and every grid node in the grid-influence list of a
\* non-fully-enriched, non-Dirichlet particle of o where the mass of o
\* exceeds epsilon, grid_velocity_ and grid_velocity_before_ both hold an
\* entry for o, and updateParticleVelocity does not reach PHYSIKA_ERROR.
C23_LookupErrorUnreachable ==
    [][pc = "velocity" => (LookupEntriesPresent /\ pc' # "error")]_vars
\* updateParticleVelocity has run through its lookups at a node that is
\* Dirichlet for the particle's object and at a node merged from two objects
C23_Witness ==
    /\ pc = "position" /\ hook = "onUpdateParticleVelocity"
    /\ \E o \in 1..objectNum : \E n \in LookupNodes(o) :
          o \in is_dirichlet_grid_node_[n]
    /\ \E o \in 1..objectNum : \E n \in LookupNodes(o) :
          ~contact_method_ /\ Cardinality(OccupyingObjects(n)) >= 2

====
